---------------------------- MODULE Spec2Model ----------------------------
(***************************************************************************)
(* TeenyAT: a 16-bit virtual machine (src/src/vm.rs), its instruction set  *)
(* (src/src/arch.rs) and its assembler (src/src/assembler.rs).             *)
(*                                                                         *)
(* Three specifications share the definitions below:                       *)
(*   Spec       the CPU run loop (TeenyAT::run) on a loaded memory image   *)
(*   SpecCodec  Instruction::with_vals and the get_* decoders              *)
(*   SpecAsm    the assembler's token walk and label resolution            *)
(***************************************************************************)
EXTENDS Integers, Sequences, FiniteSets, TLC

(***************************************************************************)
(* 16-bit words (u16) and the bit operations Rust applies to them.         *)
(***************************************************************************)
WordBits == 16

RECURSIVE Pow2(_)
Pow2(n) == IF n = 0 THEN 1 ELSE 2 * Pow2(n - 1)

WordMod == Pow2(WordBits)

U16 == 0 .. (WordMod - 1)

Wrap(x) == x % WordMod

RECURSIVE BitAndN(_, _, _)
BitAndN(a, b, n) ==
    IF n = 0 THEN 0
    ELSE (IF a % 2 = 1 /\ b % 2 = 1 THEN 1 ELSE 0)
         + 2 * BitAndN(a \div 2, b \div 2, n - 1)

RECURSIVE BitOrN(_, _, _)
BitOrN(a, b, n) ==
    IF n = 0 THEN 0
    ELSE (IF a % 2 = 1 \/ b % 2 = 1 THEN 1 ELSE 0)
         + 2 * BitOrN(a \div 2, b \div 2, n - 1)

RECURSIVE BitXorN(_, _, _)
BitXorN(a, b, n) ==
    IF n = 0 THEN 0
    ELSE (IF (a % 2) # (b % 2) THEN 1 ELSE 0)
         + 2 * BitXorN(a \div 2, b \div 2, n - 1)

\* the three operations on bytes, tabulated once
ByteAnd == [x \in 0 .. 255 |-> [y \in 0 .. 255 |-> BitAndN(x, y, 8)]]
ByteOr == [x \in 0 .. 255 |-> [y \in 0 .. 255 |-> BitOrN(x, y, 8)]]
ByteXor == [x \in 0 .. 255 |-> [y \in 0 .. 255 |-> BitXorN(x, y, 8)]]

\* a & b, a | b, a ^ b and !a on u16, byte by byte
BitAnd(a, b) ==
    ByteAnd[a % 256][b % 256] + 256 * ByteAnd[a \div 256][b \div 256]
BitOr(a, b) ==
    ByteOr[a % 256][b % 256] + 256 * ByteOr[a \div 256][b \div 256]
BitXor(a, b) ==
    ByteXor[a % 256][b % 256] + 256 * ByteXor[a \div 256][b \div 256]
BitNot(a) == (WordMod - 1) - a

\* u16 << k and u16 >> k for a shift amount below the width
ShiftLeft(a, k) == Wrap(a * Pow2(k))
ShiftRight(a, k) == a \div Pow2(k)

\* a u16 compared as it stands, unsigned
AsI16_unsigned(x) == x

\* `x as i16`: the two's-complement reading of a u16
AsI16(x) == IF x >= Pow2(WordBits - 1) THEN x - WordMod ELSE x

\* `x as u16` of an i16 (or of any integer)
AsU16(x) == x % WordMod

\* `x as u8 as u16`
AsU8(x) == x % 256

(***************************************************************************)
(* arch.rs: field layout of the op_regs word.                              *)
(***************************************************************************)
OP_CODE_SHIFT == 11
RA_SHIFT == 8
RB_SHIFT == 5
MEM_SIZE == 32768

OP_CODE_MASK == ShiftLeft(BitNot(ShiftLeft(BitNot(0), 5)), OP_CODE_SHIFT)
RA_MASK == ShiftLeft(BitNot(ShiftLeft(BitNot(0), 3)), RA_SHIFT)
RB_MASK == ShiftLeft(BitNot(ShiftLeft(BitNot(0), 3)), RB_SHIFT)

(***************************************************************************)
(* arch.rs: enum OpCode, in declaration order.                             *)
(***************************************************************************)
OpCodes ==
    << "Set", "Copy", "Load", "Stor", "PLoad", "PStor", "Push", "Pop",
       "Add", "Sub", "Mult", "Div", "Mod", "Neg", "Inc", "Dec",
       "And", "Or", "Xor", "Inv", "Shl", "Shr", "Call",
       "Jl", "Jle", "Je", "Jne", "Jge", "Jg" >>

OpCodeSet == { OpCodes[k] : k \in 1 .. Len(OpCodes) }

\* OpCode::to_int
OpToInt(op) == (CHOOSE k \in 1 .. Len(OpCodes) : OpCodes[k] = op) - 1

\* OpCode::from_int taking the codes past the last opcode for Set
OpFromInt_lenient(code) ==
    [ok |-> TRUE, op |-> IF code < Len(OpCodes) THEN OpCodes[code + 1] ELSE "Set",
     err |-> "", val |-> 0]

\* OpCode::from_int: Ok(op) or Err(InvalidOpCode(code))
OpFromInt(code) ==
    IF code < Len(OpCodes)
    THEN [ok |-> TRUE, op |-> OpCodes[code + 1], err |-> "", val |-> 0]
    ELSE [ok |-> FALSE, op |-> "", err |-> "InvalidOpCode", val |-> code]

\* OpCode::num_regs
NumRegs(op) ==
    IF op = "Call" THEN 0
    ELSE IF op \in { "Set", "Load", "Stor", "Push", "Pop", "Neg", "Inc",
                     "Dec", "Inv", "Shl", "Shr" } THEN 1
    ELSE 2

(***************************************************************************)
(* arch.rs: enum RegMnem (sixteen names for eight registers).              *)
(***************************************************************************)
RegMnems ==
    { "Pc", "_R0", "R1", "Ax", "R2", "Bx", "R3", "Cx",
      "R4", "Dx", "R5", "Ex", "R6", "Fx", "Sp", "R7" }

\* RegMnem::to_int
RegToInt(m) ==
    CASE m \in { "Pc", "_R0" } -> 0
      [] m \in { "R1", "Ax" } -> 1
      [] m \in { "R2", "Bx" } -> 2
      [] m \in { "R3", "Cx" } -> 3
      [] m \in { "R4", "Dx" } -> 4
      [] m \in { "R5", "Ex" } -> 5
      [] m \in { "R6", "Fx" } -> 6
      [] m \in { "Sp", "R7" } -> 7

\* RegMnem::from_int with code 0 naming R1, not PC
RegFromInt_zero_is_r1(code) ==
    IF code <= 7
    THEN [ok |-> TRUE,
          reg |-> << "R1", "R1", "R2", "R3", "R4", "R5", "R6", "Sp" >>[code + 1],
          err |-> "", val |-> 0]
    ELSE [ok |-> FALSE, reg |-> "", err |-> "InvalidRegister", val |-> code]

\* RegMnem::from_int: Ok(mnem) or Err(InvalidRegister(code))
RegFromInt(code) ==
    CASE code = 0 -> [ok |-> TRUE, reg |-> "Pc", err |-> "", val |-> 0]
      [] code = 1 -> [ok |-> TRUE, reg |-> "R1", err |-> "", val |-> 0]
      [] code = 2 -> [ok |-> TRUE, reg |-> "R2", err |-> "", val |-> 0]
      [] code = 3 -> [ok |-> TRUE, reg |-> "R3", err |-> "", val |-> 0]
      [] code = 4 -> [ok |-> TRUE, reg |-> "R4", err |-> "", val |-> 0]
      [] code = 5 -> [ok |-> TRUE, reg |-> "R5", err |-> "", val |-> 0]
      [] code = 6 -> [ok |-> TRUE, reg |-> "R6", err |-> "", val |-> 0]
      [] code = 7 -> [ok |-> TRUE, reg |-> "Sp", err |-> "", val |-> 0]
      [] OTHER -> [ok |-> FALSE, reg |-> "", err |-> "InvalidRegister",
                   val |-> code]

\* RegMnem::default
RegDefault == "Pc"

(***************************************************************************)
(* arch.rs: struct Instruction { word_op_regs, word_imm }.                 *)
(***************************************************************************)
\* Instruction::new
NewIns(w1, w2) == [word_op_regs |-> w1, word_imm |-> w2]

\* with_vals with RB put one bit too low, which the round trip tells apart
WithVals_rb_low(op, a, b, immv) ==
    [word_op_regs |->
        BitOr(BitOr(ShiftLeft(OpToInt(op), OP_CODE_SHIFT),
                    ShiftLeft(RegToInt(a), RA_SHIFT)),
              ShiftLeft(RegToInt(b), RB_SHIFT - 1)),
     word_imm |-> immv]

\* Instruction::with_vals
WithVals(op, a, b, immv) ==
    [word_op_regs |->
        BitOr(BitOr(ShiftLeft(OpToInt(op), OP_CODE_SHIFT),
                    ShiftLeft(RegToInt(a), RA_SHIFT)),
              ShiftLeft(RegToInt(b), RB_SHIFT)),
     word_imm |-> immv]

\* Instruction::get_op_code
GetOpCode(i) ==
    OpFromInt(ShiftRight(BitAnd(i.word_op_regs, OP_CODE_MASK), OP_CODE_SHIFT))

\* Instruction::get_ra
GetRa(i) == RegFromInt(ShiftRight(BitAnd(i.word_op_regs, RA_MASK), RA_SHIFT))

\* Instruction::get_rb
GetRb(i) == RegFromInt(ShiftRight(BitAnd(i.word_op_regs, RB_MASK), RB_SHIFT))


(***************************************************************************)
(* State.                                                                  *)
(*   vm       the TeenyAT struct (vm.rs:13-30) as a record: mem, ins, the  *)
(*            register file regs (pc, r1..r6, sp), the decode latches      *)
(*            op_code, ra, rb, imm, addr; and with it the two streams of   *)
(*            its process, stdin (bytes not yet read) and stdout (bytes    *)
(*            written)                                                     *)
(*   stage    where control is: in run's loop "fetch", "decode" or         *)
(*            "execute"; in the assembler "walk", "resolve" or "done"; in  *)
(*            the codec "encode", "decode_ins" or "decoded"                *)
(*   outcome  how run ended, or Running                                    *)
(*   steps    turns of the run loop taken                                  *)
(*   hist     history: the value of vm at the start of every turn taken    *)
(*            so far, oldest first (read by properties only)               *)
(*   limit    the number of turns of the run loop that are followed        *)
(*   rom_file the bytes of the .rom file the CPU's image is loaded from,   *)
(*            << >> while there is none                                    *)
(* The assembler (parse_file's locals) and the codec have their own        *)
(* variables, used by SpecAsm and SpecCodec:                               *)
(*   source   the lines of the file as read_file returned them             *)
(*   lines    parse_file's lines, which preprocess rewrites                *)
(*   linenum, tokens, tok_i   the line being walked (from 0), its tokens   *)
(*            and the index i into them (from 0)                           *)
(*   instructions, labels, next_ins_addr   parse_file's locals             *)
(*   rom      the Memory parse_file fills from the resolved instructions   *)
(*   asm_result   what parse_file returned, or Running                     *)
(*   trail    history: one entry for every token the walk took in          *)
(*            statement position (read by properties only)                 *)
(*   enc_in   the fields handed to Instruction::with_vals                  *)
(*   enc_ins  the Instruction it built                                     *)
(*   dec_out  what get_op_code, get_ra, get_rb and word_imm read back      *)
(***************************************************************************)
VARIABLES vm, stage, outcome, steps, hist, limit, rom_file,
          source, lines, linenum, tokens, tok_i, instructions, labels,
          next_ins_addr, rom, asm_result, trail,
          enc_in, enc_ins, dec_out

cpuVars == << vm, outcome, steps, hist, limit, rom_file >>
asmVars == << source, lines, linenum, tokens, tok_i, instructions, labels,
              next_ins_addr, rom, asm_result, trail >>
codecVars == << enc_in, enc_ins, dec_out >>
vars == << cpuVars, asmVars, codecVars, stage >>

(***************************************************************************)
(* vm.rs constants.                                                        *)
(***************************************************************************)
SP_INIT == 32768
CHAR_OUT_ADDR == 32768
CHAR_IN_ADDR == 32769
END_PROG_ADDR == 65535

(***************************************************************************)
(* How a call ends: Ok, Err(ArchError), process::exit(code), or a panic    *)
(* (the host aborts the process).                                          *)
(***************************************************************************)
Ok == [kind |-> "ok", err |-> "", val |-> 0]
Err(e, v) == [kind |-> "err", err |-> e, val |-> v]
Exit(code) == [kind |-> "exit", err |-> "", val |-> code]
Panic(why) == [kind |-> "panic", err |-> why, val |-> 0]
Running == [kind |-> "running", err |-> "", val |-> 0]

\* Builds differ in overflow-checks: on (debug profile) an overflowing
\* +, -, *, unary - or shift panics; off (release profile) it wraps.
OverflowChecks == BOOLEAN

(***************************************************************************)
(* arch.rs: struct Memory { ram: Vec<u16>, next_ins }.  ram holds MEM_SIZE *)
(* words, all zero at first; it is kept here as the function of its       *)
(* non-zero words.                                                         *)
(***************************************************************************)
\* Memory::new
NewMemory == [ram |-> << >>, next_ins |-> 0]

\* self.ram[a]
RamAt(m, a) == IF a \in DOMAIN m.ram THEN m.ram[a] ELSE 0

\* self.ram[a] = v
RamPut(m, a, v) ==
    LET dom == IF v = 0 THEN DOMAIN m.ram \ {a} ELSE DOMAIN m.ram \cup {a}
    IN  [m EXCEPT !.ram = [x \in dom |-> IF x = a THEN v ELSE m.ram[x]]]

\* Memory::read
MemRead(m, a) ==
    IF a >= MEM_SIZE
    THEN [res |-> Err("MemAddrOutOfRange", a), val |-> 0]
    ELSE [res |-> Ok, val |-> RamAt(m, a)]

\* a write that checks no address
MemWrite_unchecked(m, a, v) == [res |-> Ok, mem |-> RamPut(m, a, v)]

\* Memory::write
MemWrite(m, a, v) ==
    IF a >= MEM_SIZE
    THEN [res |-> Err("MemAddrOutOfRange", a), mem |-> m]
    ELSE [res |-> Ok, mem |-> RamPut(m, a, v)]

\* Memory::add_ins
AddIns(m, i) ==
    [RamPut(RamPut(m, m.next_ins, i.word_op_regs),
            m.next_ins + 1, i.word_imm)
     EXCEPT !.next_ins = m.next_ins + 2]

(***************************************************************************)
(* The register file and the match of get_ra / rb_val (vm.rs:132-156).     *)
(***************************************************************************)
RegFields == { "pc", "r1", "r2", "r3", "r4", "r5", "r6", "sp" }

RegField(m) ==
    CASE m \in { "_R0", "Pc" } -> "pc"
      [] m \in { "R1", "Ax" } -> "r1"
      [] m \in { "R2", "Bx" } -> "r2"
      [] m \in { "R3", "Cx" } -> "r3"
      [] m \in { "R4", "Dx" } -> "r4"
      [] m \in { "R5", "Ex" } -> "r5"
      [] m \in { "R6", "Fx" } -> "r6"
      [] m \in { "R7", "Sp" } -> "sp"

\* TeenyAT::new
NewCpu(program, input) ==
    [mem |-> program, ins |-> NewIns(0, 0),
     regs |-> [f \in RegFields |-> IF f = "sp" THEN SP_INIT ELSE 0],
     op_code |-> "Set", ra |-> RegDefault, rb |-> RegDefault,
     imm |-> 0, addr |-> 0, stdin |-> input, stdout |-> << >>]

\* self.get_ra().val and self.rb_val()
ra_val(c) == c.regs[RegField(c.ra)]
rb_val(c) == c.regs[RegField(c.rb)]

\* ra.val = v
set_ra(c, v) == [c EXCEPT !.regs[RegField(c.ra)] = v]

Done(c) == [s |-> c, res |-> Ok]

(***************************************************************************)
(* vm.rs: fetch and decode.                                                *)
(***************************************************************************)
fetch(c) ==
    LET word1 == MemRead(c.mem, c.regs["pc"])
    IN  IF word1.res # Ok THEN [s |-> c, res |-> word1.res]
        ELSE LET word2 == MemRead(c.mem, c.regs["pc"] + 1)
             IN  IF word2.res # Ok THEN [s |-> c, res |-> word2.res]
                 ELSE Done([c EXCEPT !.ins = NewIns(word1.val, word2.val),
                                     !.regs["pc"] = c.regs["pc"] + 2])

decode(c) ==
    LET op == GetOpCode(c.ins)
    IN  IF ~op.ok THEN [s |-> c, res |-> Err(op.err, op.val)]
        ELSE LET num_regs == NumRegs(op.op)
                 c1 == [c EXCEPT !.op_code = op.op]
                 c2 == IF num_regs >= 1
                       THEN [c1 EXCEPT !.ra = GetRa(c.ins).reg]
                       ELSE c1
                 c3 == IF num_regs = 2
                       THEN [c2 EXCEPT !.rb = GetRb(c.ins).reg]
                       ELSE c2
             IN  Done([c3 EXCEPT !.imm = c.ins.word_imm,
                                 !.addr = c.ins.word_imm])

(***************************************************************************)
(* vm.rs: console primitives.  stdin is the bytes not yet read (ASCII),    *)
(* stdout the bytes written so far.                                        *)
(***************************************************************************)
NEWLINE == 10

\* the bytes of s after its first line (read_line takes the line and its
\* newline)
RECURSIVE AfterLine(_)
AfterLine(s) ==
    IF s = << >> THEN << >>
    ELSE IF Head(s) = NEWLINE THEN Tail(s)
    ELSE AfterLine(Tail(s))

\* input_char: read_line into buf, then buf.bytes().next().unwrap()
input_char(c) ==
    IF c.stdin = << >>
    THEN [s |-> c, res |-> Panic("unwrap on None"), val |-> 0]
    ELSE [s |-> [c EXCEPT !.stdin = AfterLine(c.stdin)], res |-> Ok,
          val |-> Head(c.stdin)]

\* output_char without the cast to u8
output_char_whole(c, chr) == [c EXCEPT !.stdout = Append(c.stdout, chr)]

\* output_char: write(&vec![chr as u8])
output_char(c, chr) == [c EXCEPT !.stdout = Append(c.stdout, AsU8(chr))]

(***************************************************************************)
(* vm.rs: the instructions (execute's arms).  Each takes the CPU after     *)
(* decode and gives the CPU after it and how it ended.  oc is the build's  *)
(* overflow-checks setting.                                                *)
(***************************************************************************)
set(c) == Done(set_ra(c, c.imm))

copy(c) == Done(set_ra(c, rb_val(c)))

load(c) ==
    IF c.addr = CHAR_IN_ADDR
    THEN LET got == input_char(c)
         IN  IF got.res # Ok THEN [s |-> got.s, res |-> got.res]
             ELSE Done(set_ra(got.s, got.val))
    ELSE IF c.addr = END_PROG_ADDR
    THEN [s |-> c, res |-> Exit(ra_val(c))]
    ELSE LET rd == MemRead(c.mem, c.addr)
         IN  IF rd.res # Ok THEN [s |-> c, res |-> rd.res]
             ELSE Done(set_ra(c, rd.val))

stor(c) ==
    IF c.addr = CHAR_OUT_ADDR
    THEN Done(output_char(c, ra_val(c)))
    ELSE IF c.addr = END_PROG_ADDR
    THEN [s |-> c, res |-> Exit(ra_val(c))]
    ELSE LET wr == MemWrite(c.mem, c.addr, ra_val(c))
         IN  IF wr.res # Ok THEN [s |-> c, res |-> wr.res]
             ELSE Done([c EXCEPT !.mem = wr.mem])

pload(c) ==
    LET rbv == rb_val(c)
    IN  IF rbv = CHAR_IN_ADDR
        THEN LET got == input_char(c)
             IN  IF got.res # Ok THEN [s |-> got.s, res |-> got.res]
                 ELSE Done(set_ra(got.s, got.val))
        ELSE IF rbv = END_PROG_ADDR
        THEN [s |-> c, res |-> Exit(ra_val(c))]
        ELSE LET rd == MemRead(c.mem, rbv)
             IN  IF rd.res # Ok THEN [s |-> c, res |-> rd.res]
                 ELSE Done(set_ra(c, rd.val))

pstor(c) ==
    LET rbv == rb_val(c)
    IN  IF ra_val(c) = CHAR_OUT_ADDR
        THEN Done(output_char(c, rbv))
        ELSE IF ra_val(c) = END_PROG_ADDR
        THEN [s |-> c, res |-> Exit(ra_val(c))]
        ELSE LET wr == MemWrite(c.mem, ra_val(c), rbv)
             IN  IF wr.res # Ok THEN [s |-> c, res |-> wr.res]
                 ELSE Done([c EXCEPT !.mem = wr.mem])

\* push leaving SP as it was when the write fails
push_restores_sp(c, oc) ==
    IF c.regs["sp"] = 0 /\ oc
    THEN [s |-> c, res |-> Panic("attempt to subtract with overflow")]
    ELSE LET wr == MemWrite(c.mem, Wrap(c.regs["sp"] - 1), ra_val(c))
         IN  IF wr.res # Ok THEN [s |-> c, res |-> wr.res]
             ELSE Done([c EXCEPT !.mem = wr.mem,
                                 !.regs["sp"] = Wrap(c.regs["sp"] - 1)])

\* push writing at SP before it decrements SP
push_post_decrement(c, oc) ==
    LET wr == MemWrite(c.mem, c.regs["sp"], ra_val(c))
    IN  IF wr.res # Ok THEN [s |-> c, res |-> wr.res]
        ELSE Done([c EXCEPT !.mem = wr.mem,
                            !.regs["sp"] = Wrap(c.regs["sp"] - 1)])

push(c, oc) ==
    LET temp == ra_val(c)
    IN  IF c.regs["sp"] = 0 /\ oc
        THEN [s |-> c, res |-> Panic("attempt to subtract with overflow")]
        ELSE LET c1 == [c EXCEPT !.regs["sp"] = Wrap(c.regs["sp"] - 1)]
                 wr == MemWrite(c1.mem, c1.regs["sp"], temp)
             IN  IF wr.res # Ok THEN [s |-> c1, res |-> wr.res]
                 ELSE Done([c1 EXCEPT !.mem = wr.mem])

\* pop leaving SP where Push put it
pop_keeps_sp(c, oc) ==
    LET rd == MemRead(c.mem, c.regs["sp"])
    IN  IF rd.res # Ok THEN [s |-> c, res |-> rd.res]
        ELSE Done(set_ra(c, rd.val))

pop(c, oc) ==
    LET a == c.regs["sp"]
        rd == MemRead(c.mem, a)
    IN  IF rd.res # Ok THEN [s |-> c, res |-> rd.res]
        ELSE LET c1 == set_ra(c, rd.val)
             IN  IF c1.regs["sp"] = WordMod - 1 /\ oc
                 THEN [s |-> c1,
                       res |-> Panic("attempt to add with overflow")]
                 ELSE Done([c1 EXCEPT !.regs["sp"] = Wrap(c1.regs["sp"] + 1)])

\* ra.val = wide, where wide is the result in the integers: a result
\* outside u16 overflows
arith(c, wide, oc) ==
    IF wide \notin U16 /\ oc
    THEN [s |-> c, res |-> Panic("arithmetic overflow")]
    ELSE Done(set_ra(c, Wrap(wide)))

add(c, oc) == arith(c, ra_val(c) + rb_val(c), oc)

sub(c, oc) == arith(c, ra_val(c) - rb_val(c), oc)

\* a * b modulo 2^16, by halves of a
MulWrap(a, b) == Wrap((a % 256) * b + Wrap((a \div 256) * b) * 256)

mult(c, oc) ==
    IF ra_val(c) # 0 /\ rb_val(c) > (WordMod - 1) \div ra_val(c) /\ oc
    THEN [s |-> c, res |-> Panic("arithmetic overflow")]
    ELSE Done(set_ra(c, MulWrap(ra_val(c), rb_val(c))))

div(c) ==
    IF rb_val(c) = 0
    THEN [s |-> c, res |-> Panic("attempt to divide by zero")]
    ELSE Done(set_ra(c, ra_val(c) \div rb_val(c)))

divmod(c) ==
    IF rb_val(c) = 0
    THEN [s |-> c,
          res |-> Panic("attempt to calculate the remainder with a divisor of zero")]
    ELSE Done(set_ra(c, ra_val(c) % rb_val(c)))

\* -(ra.val as i16) as u16: negating i16::MIN overflows
neg(c, oc) ==
    LET wide == 0 - AsI16(ra_val(c))
    IN  IF wide >= Pow2(WordBits - 1) /\ oc
        THEN [s |-> c, res |-> Panic("attempt to negate with overflow")]
        ELSE Done(set_ra(c, AsU16(wide)))

inc(c, oc) == arith(c, ra_val(c) + 1, oc)

dec(c, oc) == arith(c, ra_val(c) - 1, oc)

and(c) == Done(set_ra(c, BitAnd(ra_val(c), rb_val(c))))

or(c) == Done(set_ra(c, BitOr(ra_val(c), rb_val(c))))

xor(c) == Done(set_ra(c, BitXor(ra_val(c), rb_val(c))))

inv(c) == Done(set_ra(c, BitNot(ra_val(c))))

\* ra.val <<= imm: a shift by the width or more overflows; unchecked, the
\* amount is taken modulo the width
shl(c, oc) ==
    IF c.imm >= WordBits /\ oc
    THEN [s |-> c, res |-> Panic("attempt to shift left with overflow")]
    ELSE Done(set_ra(c, ShiftLeft(ra_val(c), c.imm % WordBits)))

shr(c, oc) ==
    IF c.imm >= WordBits /\ oc
    THEN [s |-> c, res |-> Panic("attempt to shift right with overflow")]
    ELSE Done(set_ra(c, ShiftRight(ra_val(c), c.imm % WordBits)))

call(c, oc) ==
    LET p == push(c, oc)
    IN  IF p.res # Ok THEN p
        ELSE Done([p.s EXCEPT !.regs["pc"] = c.addr])

\* the six conditional jumps: pc = addr when the signed comparison holds
jump_if(c, taken) == Done(IF taken THEN [c EXCEPT !.regs["pc"] = c.addr] ELSE c)

jl(c) == jump_if(c, AsI16(ra_val(c)) < AsI16(rb_val(c)))

jle(c) == jump_if(c, AsI16(ra_val(c)) <= AsI16(rb_val(c)))

je(c) == jump_if(c, AsI16(ra_val(c)) = AsI16(rb_val(c)))

jne(c) == jump_if(c, AsI16(ra_val(c)) # AsI16(rb_val(c)))

jge(c) == jump_if(c, AsI16(ra_val(c)) >= AsI16(rb_val(c)))

jg(c) == jump_if(c, AsI16(ra_val(c)) > AsI16(rb_val(c)))

(***************************************************************************)
(* The memory images the CPU is run on.  An image is a sequence of         *)
(* instruction words loaded from address 0 (Memory::from_rom_file, or the  *)
(* assembler's add_ins); the rest of memory is zero.  Every program here   *)
(* is a prologue that loads R1 and R2, then a body of one to three         *)
(* instructions.                                                           *)
(***************************************************************************)
\* words the prologue puts in R1 and R2
Vals == { 0, 1, 32767, 32768, 32769, 32770, 65534, 65535 }

\* immediates and addresses of the body's instructions
Imms == { 0, 1, 16, 32767, 32768, 32769, 32770, 65534, 65535 }

\* branch and call targets
Targets == { 16, 32768 }

RegPairs ==
    { << "R1", "R2" >>, << "R1", "R1" >>, << "Pc", "R2" >>,
      << "Sp", "R2" >>, << "R1", "Pc" >>, << "R1", "Sp" >>,
      << "R3", "R2" >> }

CanonRegs == { "Pc", "R1", "R2", "R3", "R4", "R5", "R6", "Sp" }

JumpOps == { "Jl", "Jle", "Je", "Jne", "Jge", "Jg" }
ImmOps == { "Set", "Load", "Stor", "Shl", "Shr" }
OneRegOps == { "Push", "Pop", "Neg", "Inc", "Dec", "Inv" }
TwoRegOps ==
    { "Copy", "PLoad", "PStor", "Add", "Sub", "Mult", "Div", "Mod",
      "And", "Or", "Xor" }

\* op_regs words whose opcode field names no opcode
BadOps == { 29, 30, 31 }

Singles ==
    { WithVals(op, p[1], p[2], 0) : op \in TwoRegOps, p \in RegPairs }
    \cup { WithVals(op, p[1], p[2], t) :
             op \in JumpOps, p \in RegPairs, t \in Targets }
    \cup { WithVals(op, r, "Pc", 0) : op \in OneRegOps, r \in CanonRegs }
    \cup { WithVals(op, r, "Pc", v) :
             op \in ImmOps, r \in { "R1", "Pc", "Sp" }, v \in Imms }
    \cup { WithVals("Call", "Pc", "Pc", t) : t \in Targets }
    \cup { NewIns(ShiftLeft(k, OP_CODE_SHIFT), 0) : k \in BadOps }

\* two-instruction bodies: a stack or SP-changing instruction and what
\* follows it
Firsts ==
    { WithVals("Push", r, "Pc", 0) : r \in CanonRegs }
    \cup { WithVals("Set", "Sp", "Pc", v) : v \in { 0, 1, 32769, 65535 } }
    \cup { WithVals("Neg", "R1", "Pc", 0),
           WithVals("Stor", "R1", "Pc", CHAR_OUT_ADDR) }

Seconds ==
    { WithVals("Pop", r, "Pc", 0) : r \in CanonRegs }
    \cup { WithVals("Push", "R1", "Pc", 0), WithVals("Call", "Pc", "Pc", 16),
           WithVals("Neg", "R1", "Pc", 0),
           WithVals("Stor", "R2", "Pc", CHAR_OUT_ADDR),
           WithVals("PStor", "R1", "R2", 0) }

\* three-instruction bodies: SP moved, then a push and a pop of one register
SpVals == { 0, 1, 9, 10, 32769, 65535 }

Triples ==
    { << WithVals("Set", "Sp", "Pc", v), WithVals("Push", r, "Pc", 0),
         WithVals("Pop", r, "Pc", 0) >> : v \in SpVals, r \in CanonRegs }

Bodies ==
    { << p >> : p \in Singles }
    \cup { << p, q >> : p \in Firsts, q \in Seconds }
    \cup Triples

Prologue(a, b) ==
    << WithVals("Set", "R1", "Pc", a), WithVals("Set", "R2", "Pc", b) >>

\* the image holding the instructions of prog from address 0
RECURSIVE LoadAt(_, _)
LoadAt(m, prog) ==
    IF prog = << >> THEN m ELSE LoadAt(AddIns(m, Head(prog)), Tail(prog))

Image(prog) == LoadAt(NewMemory, prog)

Programs == { Prologue(a, b) \o body : a \in Vals, b \in Vals, body \in Bodies }

\* what the process may find on its standard input
Inputs == { << >>, << 65, 66, 10, 67 >> }

\* turns of the run loop followed
MaxSteps == 5

(***************************************************************************)
(* The run loop (TeenyAT::run): loop { fetch()?; decode()?; execute()? }.  *)
(* A `?` that sees an error ends run with it; process::exit and a panic    *)
(* end the process.                                                        *)
(***************************************************************************)
CanRun == outcome = Running /\ steps < limit

\* the call returned r: go on to stage `then` after Ok, end run otherwise
Return(r, then) ==
    /\ vm' = r.s
    /\ outcome' = IF r.res = Ok THEN Running ELSE r.res
    /\ stage' = IF r.res = Ok THEN then ELSE stage
    /\ UNCHANGED << asmVars, codecVars, limit, rom_file >>

Fetch ==
    /\ stage = "fetch"
    /\ CanRun
    /\ Return(fetch(vm), "decode")
    /\ hist' = Append(hist, vm)
    /\ steps' = steps

Decode ==
    /\ stage = "decode"
    /\ CanRun
    /\ Return(decode(vm), "execute")
    /\ UNCHANGED << hist, steps >>

\* execute's match arm for op is taken
Arm(op) ==
    /\ stage = "execute"
    /\ CanRun
    /\ vm.op_code = op

\* the arm returned r: the turn is over
Executed(r) ==
    /\ Return(r, "fetch")
    /\ steps' = steps + 1
    /\ hist' = hist

ExecSet == Arm("Set") /\ Executed(set(vm))

ExecCopy == Arm("Copy") /\ Executed(copy(vm))

ExecLoad == Arm("Load") /\ Executed(load(vm))

ExecStor == Arm("Stor") /\ Executed(stor(vm))

ExecPLoad == Arm("PLoad") /\ Executed(pload(vm))

ExecPStor == Arm("PStor") /\ Executed(pstor(vm))

ExecPush == Arm("Push") /\ \E oc \in OverflowChecks : Executed(push(vm, oc))

ExecPop == Arm("Pop") /\ \E oc \in OverflowChecks : Executed(pop(vm, oc))

ExecAdd == Arm("Add") /\ \E oc \in OverflowChecks : Executed(add(vm, oc))

ExecSub == Arm("Sub") /\ \E oc \in OverflowChecks : Executed(sub(vm, oc))

ExecMult == Arm("Mult") /\ \E oc \in OverflowChecks : Executed(mult(vm, oc))

ExecDiv == Arm("Div") /\ Executed(div(vm))

ExecMod == Arm("Mod") /\ Executed(divmod(vm))

ExecNeg == Arm("Neg") /\ \E oc \in OverflowChecks : Executed(neg(vm, oc))

ExecInc == Arm("Inc") /\ \E oc \in OverflowChecks : Executed(inc(vm, oc))

ExecDec == Arm("Dec") /\ \E oc \in OverflowChecks : Executed(dec(vm, oc))

ExecAnd == Arm("And") /\ Executed(and(vm))

ExecOr == Arm("Or") /\ Executed(or(vm))

ExecXor == Arm("Xor") /\ Executed(xor(vm))

ExecInv == Arm("Inv") /\ Executed(inv(vm))

ExecShl == Arm("Shl") /\ \E oc \in OverflowChecks : Executed(shl(vm, oc))

ExecShr == Arm("Shr") /\ \E oc \in OverflowChecks : Executed(shr(vm, oc))

ExecCall == Arm("Call") /\ \E oc \in OverflowChecks : Executed(call(vm, oc))

ExecJl == Arm("Jl") /\ Executed(jl(vm))

ExecJle == Arm("Jle") /\ Executed(jle(vm))

ExecJe == Arm("Je") /\ Executed(je(vm))

ExecJne == Arm("Jne") /\ Executed(jne(vm))

ExecJge == Arm("Jge") /\ Executed(jge(vm))

ExecJg == Arm("Jg") /\ Executed(jg(vm))

NextCpu ==
    \/ Fetch
    \/ Decode
    \/ ExecSet
    \/ ExecCopy
    \/ ExecLoad
    \/ ExecStor
    \/ ExecPLoad
    \/ ExecPStor
    \/ ExecPush
    \/ ExecPop
    \/ ExecAdd
    \/ ExecSub
    \/ ExecMult
    \/ ExecDiv
    \/ ExecMod
    \/ ExecNeg
    \/ ExecInc
    \/ ExecDec
    \/ ExecAnd
    \/ ExecOr
    \/ ExecXor
    \/ ExecInv
    \/ ExecShl
    \/ ExecShr
    \/ ExecCall
    \/ ExecJl
    \/ ExecJle
    \/ ExecJe
    \/ ExecJne
    \/ ExecJge
    \/ ExecJg

\* the assembler's and the codec's variables while they are not in use
AsmIdle ==
    /\ source = << >>
    /\ lines = << >>
    /\ linenum = 0
    /\ tokens = << >>
    /\ tok_i = 0
    /\ instructions = << >>
    /\ labels = << >>
    /\ next_ins_addr = 0
    /\ rom = NewMemory
    /\ asm_result = Running
    /\ trail = << >>

CodecIdle ==
    /\ enc_in = << >>
    /\ enc_ins = NewIns(0, 0)
    /\ dec_out = << >>

\* the CPU's variables while no program runs
CpuIdle ==
    /\ vm = NewCpu(NewMemory, << >>)
    /\ outcome = Running
    /\ steps = 0
    /\ hist = << >>
    /\ limit = 0
    /\ rom_file = << >>

\* main.rs run: a CPU constructed on a loaded image, about to run
Init ==
    /\ stage = "fetch"
    /\ \E prog \in Programs, input \in Inputs :
          vm = NewCpu(Image(prog), input)
    /\ outcome = Running
    /\ steps = 0
    /\ hist = << >>
    /\ limit = MaxSteps
    /\ rom_file = << >>
    /\ AsmIdle
    /\ CodecIdle

Spec == Init /\ [][NextCpu]_vars

(***************************************************************************)
(* What the properties of the run loop read.                               *)
(***************************************************************************)
\* the CPU at the start of the current turn (the last one, once run ended)
Before == hist[Len(hist)]

\* the registers the instruction of a turn started in h sees: fetch has
\* advanced PC
AtExecute(h) == [h.regs EXCEPT !["pc"] = @ + 2]

\* the last turn executed op and run goes on
JustExecuted(op) ==
    /\ stage = "fetch"
    /\ outcome = Running
    /\ hist # << >>
    /\ vm.op_code = op

\* run ended inside the execute of op
EndedIn(op) ==
    /\ stage = "execute"
    /\ outcome # Running
    /\ vm.op_code = op

\* op has been executed, whatever came of it
After(op) == JustExecuted(op) \/ EndedIn(op)

\* a u16 read as a two's-complement integer
Signed(v) == IF v < 32768 THEN v ELSE v - 65536

(***************************************************************************)
(* C1.  Executing Call at address A stores A+2 at SP-1, leaves SP one      *)
(* lower and PC at the call's target, whatever was executed before.        *)
(* (The code pushes the register the ra latch names, which a Call does     *)
(* not decode: it is the RA of the last instruction that had one.)         *)
(***************************************************************************)
C1_CallPushesReturnAddress ==
    JustExecuted("Call") =>
        /\ RamAt(vm.mem, Before.regs["sp"] - 1) = Before.regs["pc"] + 2
        /\ vm.regs["sp"] = Before.regs["sp"] - 1
        /\ vm.regs["pc"] = vm.addr

(***************************************************************************)
(* C2.  Push on a register immediately followed by Pop on the same         *)
(* register.                                                               *)
(***************************************************************************)
\* the last two turns were a Push and a Pop of one register, both Ok
PushThenPop ==
    /\ JustExecuted("Pop")
    /\ Len(hist) >= 2
    /\ Before.op_code = "Push"
    /\ Before.ra = vm.ra

\* the CPU before that Push
BeforePush == hist[Len(hist) - 1]

C3_RunEndsByExitOrError ==
    /\ outcome.kind \in { "running", "exit", "err" }
    /\ outcome.kind = "exit" =>
          /\ stage = "execute"
          /\ \/ vm.op_code \in { "Load", "Stor" } /\ vm.addr = END_PROG_ADDR
             \/ vm.op_code = "PLoad" /\ vm.regs[RegField(vm.rb)] = END_PROG_ADDR
             \/ vm.op_code = "PStor" /\ vm.regs[RegField(vm.ra)] = END_PROG_ADDR

(***************************************************************************)
(* C4.  A write to the terminator port exits with the value written: Stor  *)
(* at 0xFFFF with RA, PStor with RA = 0xFFFF with RB.                      *)
(***************************************************************************)
C4_WriteToEndExitsWithValueWritten ==
    /\ After("Stor") /\ vm.addr = END_PROG_ADDR =>
          outcome = Exit(vm.regs[RegField(vm.ra)])
    /\ After("PStor") /\ vm.regs[RegField(vm.ra)] = END_PROG_ADDR =>
          outcome = Exit(vm.regs[RegField(vm.rb)])

(***************************************************************************)
(* C5.  A conditional jump is taken exactly when the comparison of RA and  *)
(* RB, read as signed 16-bit integers, holds; taken, PC is the target;     *)
(* not taken, PC is the address of the jump plus 2.                        *)
(***************************************************************************)
Holds(op, a, b) ==
    CASE op = "Jl" -> a < b
      [] op = "Jle" -> a <= b
      [] op = "Je" -> a = b
      [] op = "Jne" -> a # b
      [] op = "Jge" -> a >= b
      [] op = "Jg" -> a > b

C5_JumpIffSignedComparison ==
    \A op \in JumpOps :
        JustExecuted(op) =>
            LET a == AtExecute(Before)[RegField(vm.ra)]
                b == AtExecute(Before)[RegField(vm.rb)]
            IN  vm.regs["pc"] = IF Holds(op, Signed(a), Signed(b))
                                THEN vm.addr
                                ELSE Before.regs["pc"] + 2

\* C5's case: a negative RA is less than a positive RB, and Jl is taken
C5_Witness ==
    /\ JustExecuted("Jl")
    /\ AtExecute(Before)[RegField(vm.ra)] = 65535
    /\ AtExecute(Before)[RegField(vm.rb)] = 1
    /\ vm.regs["pc"] = vm.addr
    /\ vm.addr # Before.regs["pc"] + 2

(***************************************************************************)
(* C7.  A Load, Stor, PLoad or PStor whose effective address is in         *)
(* 0x8002..0xFFFE makes run return MemAddrOutOfRange(address), with memory *)
(* and every register but PC (which fetch advanced) as before the         *)
(* instruction.                                                            *)
(***************************************************************************)
\* the address the last memory instruction used
EffectiveAddr ==
    CASE vm.op_code \in { "Load", "Stor" } -> vm.addr
      [] vm.op_code = "PLoad" -> AtExecute(Before)[RegField(vm.rb)]
      [] vm.op_code = "PStor" -> AtExecute(Before)[RegField(vm.ra)]

Unmapped == 32770 .. 65534

C7_UnmappedAddressIsAnError ==
    \A op \in { "Load", "Stor", "PLoad", "PStor" } :
        After(op) /\ EffectiveAddr \in Unmapped =>
            /\ outcome = Err("MemAddrOutOfRange", EffectiveAddr)
            /\ vm.mem = Before.mem
            /\ vm.regs = AtExecute(Before)

\* C7's case: a PStor through a register that holds 0xFFFE
C7_Witness ==
    /\ EndedIn("PStor")
    /\ AtExecute(Before)[RegField(vm.ra)] = 65534
    /\ outcome.kind = "err"

(***************************************************************************)
(* C16.  A Load or PLoad from 0x8001 consumes exactly one byte of the      *)
(* input and sets RA to it: what follows that byte stays to be read, in    *)
(* order.  (input_char reads a whole line and keeps its first byte.)       *)
(***************************************************************************)
C16_InputReadConsumesOneByte ==
    \A op \in { "Load", "PLoad" } :
        JustExecuted(op) /\ EffectiveAddr = CHAR_IN_ADDR =>
            /\ vm.regs[RegField(vm.ra)] = Head(Before.stdin)
            /\ vm.stdin = Tail(Before.stdin)

(***************************************************************************)
(* C17.  Stor at 0x8000, and PStor with RA = 0x8000, append one byte to    *)
(* the output, the low 8 bits of the register stored (RA of Stor, RB of    *)
(* PStor), and the run goes on with memory, input and every register but   *)
(* PC as they were.  Each byte is appended to what was written before it,  *)
(* so the output is in the order of execution.                             *)
(***************************************************************************)
StoredValue ==
    AtExecute(Before)[RegField(IF vm.op_code = "Stor" THEN vm.ra ELSE vm.rb)]

C17_OutputWriteAppendsLowByte ==
    \A op \in { "Stor", "PStor" } :
        After(op) /\ EffectiveAddr = CHAR_OUT_ADDR =>
            /\ JustExecuted(op)
            /\ vm.stdout = Append(Before.stdout, StoredValue % 256)
            /\ vm.mem = Before.mem
            /\ vm.stdin = Before.stdin
            /\ vm.regs = AtExecute(Before)

\* a PStor wrote the low byte of 0xFFFE after a Stor wrote that of 0x8000
C17_Witness ==
    /\ JustExecuted("PStor")
    /\ EffectiveAddr = CHAR_OUT_ADDR
    /\ StoredValue = 65534
    /\ vm.stdout = << 0, 254 >>

(***************************************************************************)
(* The instruction codec on its own: an instruction is built from fields   *)
(* by Instruction::with_vals and read back by get_op_code, get_ra, get_rb  *)
(* and word_imm.                                                           *)
(***************************************************************************)
(* C19.  Neg executed twice on a general register leaves the register as   *)
(* it was, and no Neg on a general register ends the run, whatever the     *)
(* register holds (0x8000 included).                                       *)
(***************************************************************************)
GeneralRegs == { "R1", "R2", "R3", "R4", "R5", "R6" }

\* the last two turns executed Neg on one general register
NegTwice ==
    /\ After("Neg")
    /\ Len(hist) >= 2
    /\ Before.op_code = "Neg"
    /\ Before.ra = vm.ra
    /\ vm.ra \in GeneralRegs

C19_NegTwiceIsIdentity ==
    /\ After("Neg") /\ vm.ra \in GeneralRegs => outcome = Running
    /\ NegTwice =>
          vm.regs[RegField(vm.ra)] = hist[Len(hist) - 1].regs[RegField(vm.ra)]

(***************************************************************************)
(* C20.  Add, Sub, Mult, Inc and Dec leave in RA the result modulo 2^16    *)
(* and the run goes on; fetch leaves PC two higher, never above 0x8000.    *)
(***************************************************************************)
Modular(op, a, b) ==
    CASE op = "Add" -> Wrap(a + b)
      [] op = "Sub" -> Wrap(a - b)
      [] op = "Mult" -> MulWrap(a, b)
      [] op = "Inc" -> Wrap(a + 1)
      [] op = "Dec" -> Wrap(a - 1)

C20_ArithmeticWrapsSilently ==
    /\ \A op \in { "Add", "Sub", "Mult", "Inc", "Dec" } :
          After(op) =>
              /\ JustExecuted(op)
              /\ vm.regs =
                    [AtExecute(Before) EXCEPT
                        ![RegField(vm.ra)] =
                            Modular(op, AtExecute(Before)[RegField(vm.ra)],
                                    AtExecute(Before)[RegField(vm.rb)])]
    /\ stage = "decode" =>
          /\ vm.regs["pc"] = Before.regs["pc"] + 2
          /\ vm.regs["pc"] <= MEM_SIZE

(***************************************************************************)
(* C23.  Shl leaves RA * 2^imm modulo 2^16 in RA and Shr the quotient of   *)
(* RA by 2^imm, for every imm: 0 when imm is 16 or more; and the run goes  *)
(* on.                                                                     *)
(***************************************************************************)
Shifted(op, a, k) ==
    IF k >= WordBits THEN 0
    ELSE IF op = "Shl" THEN Wrap(a * Pow2(k)) ELSE a \div Pow2(k)

C23_ShiftsByAnyAmount ==
    \A op \in { "Shl", "Shr" } :
        After(op) =>
            /\ JustExecuted(op)
            /\ vm.regs[RegField(vm.ra)] =
                  Shifted(op, AtExecute(Before)[RegField(vm.ra)], vm.imm)

(***************************************************************************)
(* C27.  A fetched pair of zero words is the instruction Set PC 0: decode  *)
(* takes it, execute leaves PC at 0 and nothing else changed, and run goes *)
(* on from address 0.  So a run that leaves its program by its end is not  *)
(* over: it ends only inside a fetch, a decode or an instruction that      *)
(* failed or exited.                                                       *)
(***************************************************************************)
ZeroPair == NewIns(0, 0)

C27_ZeroedMemoryRestartsTheProgram ==
    /\ vm.ins = ZeroPair /\ stage \in { "decode", "execute" } =>
          /\ outcome = Running
          /\ stage = "execute" =>
                vm.op_code = "Set" /\ vm.ra = "Pc" /\ vm.imm = 0
    /\ vm.ins = ZeroPair /\ stage = "fetch" /\ hist # << >> =>
          /\ outcome = Running
          /\ vm.regs = [Before.regs EXCEPT !["pc"] = 0]
          /\ vm.mem = Before.mem
          /\ vm.stdout = Before.stdout
    /\ outcome # Running =>
          /\ outcome.kind \in { "err", "exit", "panic" }
          /\ vm.ins # ZeroPair

\* a program of three instructions ran off its end at address 6, and its
\* first instruction has been executed a second time
C27_Witness ==
    /\ JustExecuted("Set")
    /\ Len(hist) = 5
    /\ hist[4].regs["pc"] = 6
    /\ hist[4].mem.next_ins = 6
    /\ hist[5].regs["pc"] = 0
    /\ hist[5].ins = ZeroPair
    /\ vm.ins = NewIns(RamAt(vm.mem, 0), RamAt(vm.mem, 1))
    /\ vm.regs["pc"] = 2

(***************************************************************************)
(* C28.  A Push or a Call that fails with MemAddrOutOfRange leaves SP one  *)
(* lower (modulo 2^16) than the instruction found it, the address of the   *)
(* error, and leaves memory and the other registers as they were.          *)
(***************************************************************************)
C28_FailedPushHasMovedSp ==
    \A op \in { "Push", "Call" } :
        EndedIn(op) /\ outcome.kind = "err" =>
            /\ outcome = Err("MemAddrOutOfRange", vm.regs["sp"])
            /\ vm.regs["sp"] >= MEM_SIZE
            /\ vm.regs =
                  [AtExecute(Before) EXCEPT
                      !["sp"] = Wrap(AtExecute(Before)["sp"] - 1)]
            /\ vm.regs["sp"] # Before.regs["sp"]
            /\ vm.mem = Before.mem

\* Push failed after set sp 0x8001
C28_Witness ==
    /\ EndedIn("Push")
    /\ Before.regs["sp"] = 32769
    /\ vm.regs["sp"] = 32768
    /\ outcome = Err("MemAddrOutOfRange", 32768)

(***************************************************************************)
\* immediates encoded
CodecImms == { 0, 1, 31, 32, 255, 256, 32768, 65535 }

InitCodec ==
    /\ stage = "encode"
    /\ \E op \in OpCodeSet, a \in RegMnems, b \in RegMnems, i \in CodecImms :
          enc_in = [op |-> op, ra |-> a, rb |-> b, imm |-> i]
    /\ enc_ins = NewIns(0, 0)
    /\ dec_out = << >>
    /\ CpuIdle
    /\ AsmIdle

Encode ==
    /\ stage = "encode"
    /\ enc_ins' = WithVals(enc_in.op, enc_in.ra, enc_in.rb, enc_in.imm)
    /\ stage' = "get_op_code"
    /\ UNCHANGED << enc_in, dec_out, cpuVars, asmVars >>

ReadOpCode ==
    /\ stage = "get_op_code"
    /\ dec_out' = Append(dec_out, GetOpCode(enc_ins))
    /\ stage' = "get_ra"
    /\ UNCHANGED << enc_in, enc_ins, cpuVars, asmVars >>

ReadRa ==
    /\ stage = "get_ra"
    /\ dec_out' = Append(dec_out, GetRa(enc_ins))
    /\ stage' = "get_rb"
    /\ UNCHANGED << enc_in, enc_ins, cpuVars, asmVars >>

ReadRb ==
    /\ stage = "get_rb"
    /\ dec_out' = Append(dec_out, GetRb(enc_ins))
    /\ stage' = "word_imm"
    /\ UNCHANGED << enc_in, enc_ins, cpuVars, asmVars >>

ReadImm ==
    /\ stage = "word_imm"
    /\ dec_out' = Append(dec_out, enc_ins.word_imm)
    /\ stage' = "decoded"
    /\ UNCHANGED << enc_in, enc_ins, cpuVars, asmVars >>

NextCodec ==
    \/ Encode
    \/ ReadOpCode
    \/ ReadRa
    \/ ReadRb
    \/ ReadImm

SpecCodec == InitCodec /\ [][NextCodec]_vars

(***************************************************************************)
(* C6.  Decoding the instruction the encoder built gives back the opcode,  *)
(* the two register indices and the immediate it was built from, and the   *)
(* encoded op_regs word is op * 2^11 + ra * 2^8 + rb * 2^5, its low five   *)
(* bits zero.                                                              *)
(***************************************************************************)
C6_EncodeDecodeRoundTrip ==
    stage = "decoded" =>
        /\ dec_out[1].ok /\ dec_out[1].op = enc_in.op
        /\ dec_out[2].ok /\ RegToInt(dec_out[2].reg) = RegToInt(enc_in.ra)
        /\ dec_out[3].ok /\ RegToInt(dec_out[3].reg) = RegToInt(enc_in.rb)
        /\ dec_out[4] = enc_in.imm
        /\ enc_ins.word_op_regs =
              OpToInt(enc_in.op) * 2048 + RegToInt(enc_in.ra) * 256
                  + RegToInt(enc_in.rb) * 32
        /\ enc_ins.word_op_regs % 32 = 0

\* C6's case: the last opcode with both register fields full
C6_Witness ==
    /\ stage = "decoded"
    /\ enc_in = [op |-> "Jg", ra |-> "Sp", rb |-> "R7", imm |-> 65535]
    /\ enc_ins.word_op_regs = 59360
    /\ dec_out[1].op = "Jg"

(***************************************************************************)
(* Text, as the assembler handles it: a String is a TLA+ string, and the   *)
(* std::str methods the assembler uses are the operators below.            *)
(***************************************************************************)
\* the character at position i (from 1), as a string of length 1
Char(s, i) == SubSeq(s, i, i)

\* s without its first n characters
Drop(s, n) == SubSeq(s, n + 1, Len(s))

\* char::is_whitespace, for the characters of the sources
Whitespace == { " ", "\t" }

\* str::starts_with
StartsWith(s, pat) == Len(s) >= Len(pat) /\ SubSeq(s, 1, Len(pat)) = pat

\* str::trim
RECURSIVE TrimStart(_)
TrimStart(s) ==
    IF Len(s) > 0 /\ Char(s, 1) \in Whitespace THEN TrimStart(Drop(s, 1))
    ELSE s

RECURSIVE TrimEnd(_)
TrimEnd(s) ==
    IF Len(s) > 0 /\ Char(s, Len(s)) \in Whitespace
    THEN TrimEnd(SubSeq(s, 1, Len(s) - 1))
    ELSE s

Trim(s) == TrimEnd(TrimStart(s))

\* str::find: the position (from 0) of the first pat in s, or -1 for None
RECURSIVE FindFrom(_, _, _)
FindFrom(s, pat, k) ==
    IF Len(s) < Len(pat) THEN -1
    ELSE IF StartsWith(s, pat) THEN k
    ELSE FindFrom(Drop(s, 1), pat, k + 1)

Find(s, pat) == FindFrom(s, pat, 0)

\* str::replace: every non-overlapping pat, leftmost first, becomes rep
RECURSIVE Replace(_, _, _)
Replace(s, pat, rep) ==
    IF Len(s) < Len(pat) THEN s
    ELSE IF StartsWith(s, pat)
         THEN rep \o Replace(Drop(s, Len(pat)), pat, rep)
         ELSE Char(s, 1) \o Replace(Drop(s, 1), pat, rep)

\* str::trim_start_matches
RECURSIVE TrimStartMatches(_, _)
TrimStartMatches(s, pat) ==
    IF StartsWith(s, pat) THEN TrimStartMatches(Drop(s, Len(pat)), pat)
    ELSE s

\* str::split_whitespace: the maximal runs of non-whitespace, in order;
\* word is the run being read
RECURSIVE SplitFrom(_, _)
SplitFrom(s, word) ==
    IF Len(s) = 0 THEN (IF word = "" THEN << >> ELSE << word >>)
    ELSE IF Char(s, 1) \in Whitespace
         THEN (IF word = "" THEN << >> ELSE << word >>)
                  \o SplitFrom(Drop(s, 1), "")
         ELSE SplitFrom(Drop(s, 1), word \o Char(s, 1))

SplitWhitespace(s) == SplitFrom(s, "")

\* str::to_ascii_lowercase
UpperCase == "ABCDEFGHIJKLMNOPQRSTUVWXYZ"
LowerCase == "abcdefghijklmnopqrstuvwxyz"

LowerChar(c) ==
    IF \E k \in 1 .. Len(UpperCase) : Char(UpperCase, k) = c
    THEN Char(LowerCase, CHOOSE k \in 1 .. Len(UpperCase) :
                             Char(UpperCase, k) = c)
    ELSE c

RECURSIVE ToAsciiLowercase(_)
ToAsciiLowercase(s) ==
    IF Len(s) = 0 THEN s
    ELSE LowerChar(Char(s, 1)) \o ToAsciiLowercase(Drop(s, 1))

\* the ASCII characters ' ' (32) to '_' (95) and 'a' (97) to '~' (126), each
\* in order
AsciiFrom32 ==
    " !\"#$%&'(" \o ")*+,-./0123456789:;<=>?@" \o UpperCase \o "[\\]^_"

AsciiFrom97 == LowerCase \o "{|}~"

\* the position of the character c in the string s, or 0
IndexIn(s, c) ==
    IF \E k \in 1 .. Len(s) : Char(s, k) = c
    THEN CHOOSE k \in 1 .. Len(s) : Char(s, k) = c
    ELSE 0

\* chr as u8
CharCode(c) ==
    IF IndexIn(AsciiFrom32, c) > 0 THEN 31 + IndexIn(AsciiFrom32, c)
    ELSE 96 + IndexIn(AsciiFrom97, c)

(***************************************************************************)
(* str::parse::<u16>, str::parse::<i16> and u16::from_str_radix(_, 16):    *)
(* the value, or -1 for Err.                                               *)
(***************************************************************************)
HexDigits == "0123456789abcdef"

\* char::to_digit(radix): the digit's value, or -1
DigitVal(c, radix) ==
    LET k == IndexIn(HexDigits, LowerChar(c))
    IN  IF k > 0 /\ k - 1 < radix THEN k - 1 ELSE -1

\* the digits of s read in radix onto acc; -1 for a character that is not a
\* digit or a value above max
RECURSIVE Digits(_, _, _, _)
Digits(s, radix, acc, max) ==
    IF Len(s) = 0 THEN acc
    ELSE LET d == DigitVal(Char(s, 1), radix)
         IN  IF d < 0 \/ acc * radix + d > max THEN -1
             ELSE Digits(Drop(s, 1), radix, acc * radix + d, max)

\* an unsigned integer: an optional '+', then at least one digit
ParseUnsigned(s, radix) ==
    LET body == IF StartsWith(s, "+") THEN Drop(s, 1) ELSE s
    IN  IF Len(body) = 0 THEN -1 ELSE Digits(body, radix, 0, WordMod - 1)

\* tok.parse::<i16>() as u16: an optional sign, then at least one digit
ParseI16AsU16(s) ==
    LET minus == StartsWith(s, "-")
        body == IF minus \/ StartsWith(s, "+") THEN Drop(s, 1) ELSE s
        mag == IF Len(body) = 0 THEN -1
               ELSE Digits(body, 10, 0,
                           IF minus THEN WordMod \div 2 ELSE WordMod \div 2 - 1)
    IN  IF mag < 0 THEN -1 ELSE IF minus THEN Wrap(0 - mag) ELSE mag

(***************************************************************************)
(* assembler.rs: enum Token and Token::parse_str.                          *)
(***************************************************************************)
TokOp(op) == [kind |-> "Op", name |-> op, num |-> 0]
TokReg(reg) == [kind |-> "Reg", name |-> reg, num |-> 0]
TokLabel(lbl, ln) == [kind |-> "Label", name |-> lbl, num |-> ln]
TokImm(v) == [kind |-> "Imm", name |-> "", num |-> v]

\* the mnemonics OpCode::from_str matches, in the order of OpCodes
OpMnems ==
    << "set", "copy", "load", "stor", "pload", "pstor", "push", "pop",
       "add", "sub", "mult", "div", "mod", "neg", "inc", "dec",
       "and", "or", "xor", "inv", "shl", "shr", "call",
       "jl", "jle", "je", "jne", "jge", "jg" >>

\* OpCode::from_str: the opcode, or "" for Err(InvalidOpMnem)
OpFromStr(tok) ==
    LET op == ToAsciiLowercase(tok)
    IN  IF \E k \in 1 .. Len(OpMnems) : OpMnems[k] = op
        THEN OpCodes[CHOOSE k \in 1 .. Len(OpMnems) : OpMnems[k] = op]
        ELSE ""

\* RegMnem::from_str: the register, or "" for Err(InvalidRegMnem)
RegFromStr(tok) ==
    LET mnem == ToAsciiLowercase(tok)
    IN  CASE mnem \in { "pc", "r0" } -> "Pc"
          [] mnem \in { "ax", "r1" } -> "R1"
          [] mnem \in { "bx", "r2" } -> "R2"
          [] mnem \in { "cx", "r3" } -> "R3"
          [] mnem \in { "dx", "r4" } -> "R4"
          [] mnem \in { "ex", "r5" } -> "R5"
          [] mnem \in { "fx", "r6" } -> "R6"
          [] mnem \in { "sp", "r7" } -> "R7"
          [] OTHER -> ""

\* escape_char
escape_char(chr) ==
    CASE chr = "a" -> 7
      [] chr = "b" -> 8
      [] chr = "n" -> 10
      [] chr = "r" -> 13
      [] chr = "t" -> 9
      [] chr = "\\" -> 92
      [] chr = "'" -> 39
      [] chr = "\"" -> 34
      [] chr = "?" -> 63
      [] OTHER -> 0

\* Token::parse_str
parse_str(tok, ln) ==
    IF StartsWith(tok, "!") \/ StartsWith(tok, ":")
    THEN TokLabel(tok, ln)
    ELSE IF StartsWith(tok, "'") /\ Len(tok) = 3
    THEN TokImm(CharCode(Char(tok, 2)))
    ELSE IF StartsWith(tok, "'") /\ Len(tok) = 4 /\ Char(tok, 2) = "\\"
    THEN TokImm(escape_char(Char(tok, 3)))
    ELSE IF OpFromStr(tok) # "" THEN TokOp(OpFromStr(tok))
    ELSE IF RegFromStr(tok) # "" THEN TokReg(RegFromStr(tok))
    ELSE IF ParseUnsigned(tok, 10) >= 0 THEN TokImm(ParseUnsigned(tok, 10))
    ELSE IF ParseI16AsU16(tok) >= 0 THEN TokImm(ParseI16AsU16(tok))
    ELSE IF ParseUnsigned(TrimStartMatches(tok, "0x"), 16) >= 0
    THEN TokImm(ParseUnsigned(TrimStartMatches(tok, "0x"), 16))
    ELSE TokImm(0)

\* Token::is_imm
is_imm(tok) == tok.kind = "Imm"

\* tokenize
tokenize(line, ln) ==
    CHOOSE toks \in
        { [k \in 1 .. Len(words) |-> parse_str(words[k], ln)] :
            words \in { SplitWhitespace(line) } } : TRUE

(***************************************************************************)
(* assembler.rs: preprocess.                                               *)
(***************************************************************************)
OUT == "OUT"
OUT_ADDR == "0x8000"
IN_ == "IN"
IN_ADDR == "0x8001"
END == "END"
END_ADDR == "0xffff"

\* the replacements of preprocess, in its order
Replacements ==
    << << ",", "" >>, << "jmp", "set pc " >>, << "JMP", "set pc " >>,
       << "ret", "pop pc " >>, << "RET", "pop pc " >>, << OUT, OUT_ADDR >>,
       << IN_, IN_ADDR >>, << END, END_ADDR >> >>

\* line = line.replace(pat, rep) for each pair of reps in turn; every
\* intermediate line is a value before the next replace reads it
RECURSIVE ReplaceEach(_, _)
ReplaceEach(line, reps) ==
    IF reps = << >> THEN line
    ELSE CHOOSE out \in
             { ReplaceEach(replaced, Tail(reps)) :
                 replaced \in { Replace(line, reps[1][1], reps[1][2]) } } :
             TRUE

\* if let Some(i) = line.find(';') { line.truncate(i) }
Truncate(line) ==
    LET semi == Find(line, ";")
    IN  IF semi >= 0 THEN SubSeq(line, 1, semi) ELSE line

\* the body of preprocess's loop, on one line
preprocess_line(line) ==
    CHOOSE out \in
        { ReplaceEach(code, Replacements) :
            code \in { Truncate(trimmed) : trimmed \in { Trim(line) } } } :
        TRUE

preprocess(ls) == [k \in 1 .. Len(ls) |-> preprocess_line(ls[k])]

(***************************************************************************)
(* assembler.rs: UnresolvedIns and the handlers of the walk.  tokens[k] of *)
(* the code is Tok(toks, k) here.                                          *)
(***************************************************************************)
Tok(toks, k) == toks[k + 1]

\* UnresolvedIns::new
UnresolvedIns(op, ra, rb, imm) == [op |-> op, ra |-> ra, rb |-> rb, imm |-> imm]

\* UnresolvedIns::resolve; labels[lbl] of a missing key panics
resolve(u, lbls) ==
    CASE u.imm.kind = "Imm" ->
            [res |-> Ok, ins |-> WithVals(u.op, u.ra, u.rb, u.imm.num)]
      [] u.imm.kind = "Label" ->
            IF u.imm.name \in DOMAIN lbls
            THEN [res |-> Ok,
                  ins |-> WithVals(u.op, u.ra, u.rb, lbls[u.imm.name])]
            ELSE [res |-> Panic("key not found in HashMap"),
                  ins |-> NewIns(0, 0)]
      [] OTHER -> [res |-> Err("InvalidOperand", 0), ins |-> NewIns(0, 0)]

\* handle_op_0reg naming register R1 as RA
handle_op_0reg_r1(op, i) ==
    [ins |-> UnresolvedIns(op, "R1", RegDefault, TokImm(0)), i |-> i]

\* handle_op_0reg: the instruction pushed, and i as it leaves it
handle_op_0reg(op, i) ==
    [ins |-> UnresolvedIns(op, RegDefault, RegDefault, TokImm(0)), i |-> i]

\* handle_op_1reg
handle_op_1reg(op, toks, i) ==
    LET at == IF op = "Stor" THEN i + 2 ELSE i + 1
        has_reg == at < Len(toks) /\ Tok(toks, at).kind = "Reg"
        ra == IF has_reg THEN Tok(toks, at).name ELSE RegDefault
        takes == CASE op \in { "Set", "Load", "Shl", "Shr" } ->
                         i + 2 < Len(toks) /\ is_imm(Tok(toks, i + 2))
                   [] op = "Stor" -> i + 1 < Len(toks)
                   [] OTHER -> FALSE
        imm == IF ~takes THEN TokImm(0)
               ELSE IF op = "Stor" THEN Tok(toks, i + 1)
               ELSE Tok(toks, i + 2)
        i_ofs == (IF has_reg THEN 1 ELSE 0) + (IF takes THEN 1 ELSE 0)
    IN  [ins |-> UnresolvedIns(op, ra, RegDefault, imm), i |-> i + i_ofs]

\* handle_op_2reg
handle_op_2reg(op, toks, i) ==
    LET has_ra == i + 1 < Len(toks) /\ Tok(toks, i + 1).kind = "Reg"
        has_rb == i + 2 < Len(toks) /\ Tok(toks, i + 2).kind = "Reg"
        ra == IF has_ra THEN Tok(toks, i + 1).name ELSE RegDefault
        rb == IF has_rb THEN Tok(toks, i + 2).name ELSE RegDefault
        jump == op \in { "Jl", "Jle", "Je", "Jne", "Jge", "Jg" }
        imm == IF jump /\ i + 3 < Len(toks) THEN Tok(toks, i + 3)
               ELSE TokImm(0)
        i_ofs == (IF has_ra THEN 1 ELSE 0) + (IF has_rb THEN 1 ELSE 0)
                     + (IF jump THEN 1 ELSE 0)
    IN  [ins |-> UnresolvedIns(op, ra, rb, imm), i |-> i + i_ofs]

\* handle_op
handle_op(op, toks, i) ==
    CASE NumRegs(op) = 0 -> handle_op_0reg(op, i)
      [] NumRegs(op) = 1 -> handle_op_1reg(op, toks, i)
      [] NumRegs(op) = 2 -> handle_op_2reg(op, toks, i)

\* labels.insert(lbl, addr)
Insert(lbls, lbl, addr) ==
    [x \in DOMAIN lbls \cup { lbl } |-> IF x = lbl THEN addr ELSE lbls[x]]

\* handle_label recording the address after the one it is given
handle_label_late(tok, lbls, addr, line_num) ==
    [labels |-> Insert(lbls, tok.name, addr + 2),
     res |-> IF tok.name \in DOMAIN lbls
             THEN Err("RepeatedLabel", << tok.name, tok.num, line_num >>)
             ELSE Ok]

\* handle_label letting a second declaration replace the first
handle_label_replacing(tok, lbls, addr, line_num) ==
    [labels |-> Insert(lbls, tok.name, addr), res |-> Ok]

\* handle_label with do_eval = false: the map after the insert, and Ok or
\* Err(RepeatedLabel(lbl, line, line_num))
handle_label(tok, lbls, addr, line_num) ==
    [labels |-> Insert(lbls, tok.name, addr),
     res |-> IF tok.name \in DOMAIN lbls
             THEN Err("RepeatedLabel", << tok.name, tok.num, line_num >>)
             ELSE Ok]

(***************************************************************************)
(* assembler.rs: parse_file, a step at a time.  stage is "read" before     *)
(* preprocess, "line" at the head of the loop over the lines, "walk"       *)
(* inside the loop over a line's tokens, "resolve" in the loop over the    *)
(* instructions, and "done" once parse_file has returned.                  *)
(***************************************************************************)
\* the lines sources are made of
AsmLines ==
    { ":L inc ax", "inc ax :L", "jmp :L", "jl r1 r2 :L", "stor :L r1",
      "load r2 :L", "set r1, 5 6 ; :L", ":M", "je ax, bx :M", "stor r1 :L",
      "jne r1 r2 :N" }

\* lines in a source
MaxLines == 3

Sources == UNION { [1 .. n -> AsmLines] : n \in 1 .. MaxLines }

InitAsm ==
    /\ stage = "read"
    /\ source \in Sources
    /\ lines = source
    /\ linenum = 0
    /\ tokens = << >>
    /\ tok_i = 0
    /\ instructions = << >>
    /\ labels = << >>
    /\ next_ins_addr = 0
    /\ rom = NewMemory
    /\ asm_result = Running
    /\ trail = << >>
    /\ CpuIdle
    /\ CodecIdle

\* the entry of trail for the token the walk is at
Taken == [kind |-> Tok(tokens, tok_i).kind, name |-> Tok(tokens, tok_i).name,
          line |-> linenum, i |-> tok_i, emitted |-> Len(instructions)]

Preprocess ==
    /\ stage = "read"
    /\ lines' = preprocess(lines)
    /\ stage' = "line"
    /\ UNCHANGED << source, linenum, tokens, tok_i, instructions, labels,
                    next_ins_addr, rom, asm_result, trail,
                    cpuVars, codecVars >>

\* for (linenum, line) in lines, a next line there is: tokenize it
Tokenize ==
    /\ stage = "line"
    /\ linenum < Len(lines)
    /\ tokens' = tokenize(lines[linenum + 1], linenum)
    /\ tok_i' = 0
    /\ stage' = "walk"
    /\ UNCHANGED << source, lines, linenum, instructions, labels,
                    next_ins_addr, rom, asm_result, trail,
                    cpuVars, codecVars >>

\* Token::Op(op): handle_op, next_ins_addr += 2, i += 1.  A source has far
\* fewer than 2^15 instructions, so the addition stays within u16.
WalkOp ==
    /\ stage = "walk"
    /\ tok_i < Len(tokens)
    /\ Tok(tokens, tok_i).kind = "Op"
    /\ LET h == handle_op(Tok(tokens, tok_i).name, tokens, tok_i)
       IN  /\ instructions' = Append(instructions, h.ins)
           /\ tok_i' = h.i + 1
    /\ next_ins_addr' = next_ins_addr + 2
    /\ trail' = Append(trail, Taken)
    /\ UNCHANGED << source, lines, linenum, tokens, labels, rom, asm_result,
                    stage, cpuVars, codecVars >>

\* Token::Label: handle_label, whose error parse_file returns; i += 1
WalkLabel ==
    /\ stage = "walk"
    /\ tok_i < Len(tokens)
    /\ Tok(tokens, tok_i).kind = "Label"
    /\ LET h == handle_label(Tok(tokens, tok_i), labels, next_ins_addr,
                             linenum)
       IN  /\ labels' = h.labels
           /\ asm_result' = IF h.res = Ok THEN asm_result ELSE h.res
           /\ stage' = IF h.res = Ok THEN stage ELSE "done"
           /\ tok_i' = IF h.res = Ok THEN tok_i + 1 ELSE tok_i
    /\ trail' = Append(trail, Taken)
    /\ UNCHANGED << source, lines, linenum, tokens, instructions,
                    next_ins_addr, rom, cpuVars, codecVars >>

\* any other token: i += 1
WalkOther ==
    /\ stage = "walk"
    /\ tok_i < Len(tokens)
    /\ Tok(tokens, tok_i).kind \notin { "Op", "Label" }
    /\ tok_i' = tok_i + 1
    /\ trail' = Append(trail, Taken)
    /\ UNCHANGED << source, lines, linenum, tokens, instructions, labels,
                    next_ins_addr, rom, asm_result, stage,
                    cpuVars, codecVars >>

\* while i < tokens.len() is over: on to the next line
EndLine ==
    /\ stage = "walk"
    /\ tok_i >= Len(tokens)
    /\ linenum' = linenum + 1
    /\ stage' = "line"
    /\ UNCHANGED << source, lines, tokens, tok_i, instructions, labels,
                    next_ins_addr, rom, asm_result, trail,
                    cpuVars, codecVars >>

\* the lines are over: let mut mem = Memory::new()
EndWalk ==
    /\ stage = "line"
    /\ linenum >= Len(lines)
    /\ rom' = NewMemory
    /\ stage' = "resolve"
    /\ UNCHANGED << source, lines, linenum, tokens, tok_i, instructions,
                    labels, next_ins_addr, asm_result, trail,
                    cpuVars, codecVars >>

\* instructions resolved and added to rom so far
Resolved == rom.next_ins \div 2

\* mem.add_ins(ins.resolve(&labels)?) for the next instruction
ResolveIns ==
    /\ stage = "resolve"
    /\ Resolved < Len(instructions)
    /\ LET r == resolve(instructions[Resolved + 1], labels)
       IN  /\ rom' = IF r.res = Ok THEN AddIns(rom, r.ins) ELSE rom
           /\ asm_result' = IF r.res = Ok THEN asm_result ELSE r.res
           /\ stage' = IF r.res = Ok THEN stage ELSE "done"
    /\ UNCHANGED << source, lines, linenum, tokens, tok_i, instructions,
                    labels, next_ins_addr, trail, cpuVars, codecVars >>

\* Ok(mem)
Finish ==
    /\ stage = "resolve"
    /\ Resolved >= Len(instructions)
    /\ asm_result' = Ok
    /\ stage' = "done"
    /\ UNCHANGED << source, lines, linenum, tokens, tok_i, instructions,
                    labels, next_ins_addr, rom, trail, cpuVars, codecVars >>

NextAsm ==
    \/ Preprocess
    \/ Tokenize
    \/ WalkOp
    \/ WalkLabel
    \/ WalkOther
    \/ EndLine
    \/ EndWalk
    \/ ResolveIns
    \/ Finish

SpecAsm == InitAsm /\ [][NextAsm]_vars

(***************************************************************************)
(* What the properties of the assembler read.                              *)
(***************************************************************************)
\* the entries of trail that are declarations of lbl
Declarations(lbl) ==
    { k \in DOMAIN trail : trail[k].kind = "Label" /\ trail[k].name = lbl }

\* the tokens of line ln (from 0), once preprocess has rewritten the lines
TokensOf(ln) == tokenize(lines[ln + 1], ln)

\* the label line ln starts with, or "" if its first token is no label
FirstLabel(ln) ==
    LET words == SplitWhitespace(lines[ln + 1])
    IN  IF words # << >> /\ parse_str(words[1], ln).kind = "Label"
        THEN words[1]
        ELSE ""

\* parse_file returned Ok(mem)
Assembled == stage = "done" /\ asm_result.kind = "ok"

\* the immediate word of instruction j (from 1) in rom
ImmInRom(j) == RamAt(rom, 2 * (j - 1) + 1)

(***************************************************************************)
(* C8.  An instruction whose immediate slot carries a reference to a label *)
(* is emitted with the address of the label's declaration, which is twice  *)
(* the number of instructions emitted before the declaration, whether the  *)
(* declaration comes before the reference or after it.                     *)
(***************************************************************************)
C8_ReferenceResolvesToDeclaredAddress ==
    stage \in { "resolve", "done" } =>
        \A j \in 1 .. Resolved :
            instructions[j].imm.kind = "Label" =>
                /\ Declarations(instructions[j].imm.name) # { }
                /\ \A k \in Declarations(instructions[j].imm.name) :
                      ImmInRom(j) = 2 * trail[k].emitted

\* C8's case: one label, declared at address 2, referred to from before and
\* from after its declaration
C8_Witness ==
    /\ Assembled
    /\ source = << "jl r1 r2 :L", ":L inc ax", "stor :L r1" >>
    /\ instructions[1].imm.kind = "Label"
    /\ instructions[3].imm.kind = "Label"
    /\ ImmInRom(1) = 2
    /\ ImmInRom(3) = 2

(***************************************************************************)
(* C9.  A Set, Load, Shl or Shr followed by a register and a label takes   *)
(* the label as its operand: the label is the instruction's immediate,     *)
(* resolved to the label's declared address, and the walk does not take    *)
(* the label token as a declaration.                                       *)
(***************************************************************************)
\* entry k of trail is such an instruction: its label operand
LabelOperand(k) ==
    LET toks == TokensOf(trail[k].line)
        i == trail[k].i
    IN  IF /\ trail[k].kind = "Op"
           /\ trail[k].name \in { "Set", "Load", "Shl", "Shr" }
           /\ i + 2 < Len(toks)
           /\ Tok(toks, i + 1).kind = "Reg"
           /\ Tok(toks, i + 2).kind = "Label"
        THEN Tok(toks, i + 2)
        ELSE TokImm(0)

C9_LabelOperandOfSetIsConsumed ==
    \A k \in DOMAIN trail :
        LabelOperand(k).kind = "Label" =>
            /\ instructions[trail[k].emitted + 1].imm = LabelOperand(k)
            /\ ~ \E d \in Declarations(LabelOperand(k).name) :
                    trail[d].line = trail[k].line /\ trail[d].i = trail[k].i + 2

(***************************************************************************)
(* C10.  A source in which one label is declared twice is not assembled:   *)
(* parse_file returns RepeatedLabel and no image, whatever else the source *)
(* holds.  The labels declared are those the walk took in statement        *)
(* position, the first token of a line being always one.                   *)
(***************************************************************************)
\* two lines of the source start with one label
TwoLinesStartWithOneLabel ==
    \E a \in 1 .. Len(lines) :
        LET lbl == FirstLabel(a - 1)
        IN  lbl # "" /\ \E b \in a + 1 .. Len(lines) : FirstLabel(b - 1) = lbl

\* the walk took one label twice
DeclaredTwice ==
    \E b \in DOMAIN trail :
        /\ trail[b].kind = "Label"
        /\ \E a \in 1 .. b - 1 :
              trail[a].kind = "Label" /\ trail[a].name = trail[b].name

C10_RepeatedLabelIsAnError ==
    /\ DeclaredTwice =>
          /\ stage = "done"
          /\ asm_result.kind = "err"
          /\ asm_result.err = "RepeatedLabel"
          /\ rom = NewMemory
    /\ stage = "done" /\ TwoLinesStartWithOneLabel =>
          /\ asm_result.kind = "err"
          /\ asm_result.err = "RepeatedLabel"
          /\ rom = NewMemory

\* C10's case: the second declaration comes after other lines
C10_Witness ==
    /\ stage = "done"
    /\ source = << ":L inc ax", "stor :L r1", "inc ax :L" >>
    /\ DeclaredTwice
    /\ asm_result.kind = "err"
    /\ asm_result.val = << ":L", 2, 2 >>

(***************************************************************************)
(* C11.  The RepeatedLabel error of a label declared on line m and again   *)
(* on line n carries the label's name, m as the line of the first          *)
(* appearance and n as the line of the second.                             *)
(***************************************************************************)
\* the line of the first declaration of lbl the walk took
FirstDeclaredOn(lbl) ==
    trail[CHOOSE k \in Declarations(lbl) :
              \A d \in Declarations(lbl) : k <= d].line

C11_RepeatedLabelNamesBothLines ==
    stage = "done" /\ asm_result.kind = "err"
                   /\ asm_result.err = "RepeatedLabel" =>
        asm_result.val = << trail[Len(trail)].name,
                            FirstDeclaredOn(trail[Len(trail)].name),
                            trail[Len(trail)].line >>

(***************************************************************************)
(* C12.  A source one of whose instructions holds, in its immediate slot,  *)
(* a label declared nowhere is not assembled: parse_file returns the       *)
(* InvalidOperand error.                                                   *)
(***************************************************************************)
\* the walk is over and left an instruction referring to an undeclared label
RefersToUndeclared ==
    /\ stage = "done"
    /\ ~DeclaredTwice
    /\ \E j \in 1 .. Len(instructions) :
          /\ instructions[j].imm.kind = "Label"
          /\ Declarations(instructions[j].imm.name) = { }

C12_UndeclaredLabelIsInvalidOperand ==
    RefersToUndeclared =>
        asm_result.kind = "err" /\ asm_result.err = "InvalidOperand"

(***************************************************************************)
(* C13.  The parser is permissive: an operand that is missing or of the    *)
(* wrong kind is taken as register 0 or immediate 0, so every instruction  *)
(* the walk emits has an immediate or a label in its immediate slot, and   *)
(* no source is refused with InvalidOperand.                               *)
(***************************************************************************)
C13_IllTypedOperandsDefault ==
    /\ \A j \in 1 .. Len(instructions) :
          instructions[j].imm.kind \in { "Imm", "Label" }
    /\ ~(asm_result.kind = "err" /\ asm_result.err = "InvalidOperand")

(***************************************************************************)
(* arch.rs: the ROM file.  Memory::bytes lays the words out low byte       *)
(* first, from word 0 to word next_ins + 1; Memory::from_rom_file reads    *)
(* them back two bytes at a time.                                          *)
(***************************************************************************)
\* Memory::bytes with the high byte of each word first
bytes_high_first(m) ==
    LET n == IF m.next_ins + 2 <= MEM_SIZE THEN m.next_ins + 2 ELSE MEM_SIZE
    IN  [k \in 1 .. 2 * n |->
            IF k % 2 = 0 THEN BitAnd(RamAt(m, (k - 1) \div 2), 255)
            ELSE ShiftRight(BitAnd(RamAt(m, (k - 1) \div 2), 65280), 8)]

\* Memory::bytes
bytes(m) ==
    LET n == IF m.next_ins + 2 <= MEM_SIZE THEN m.next_ins + 2 ELSE MEM_SIZE
    IN  [k \in 1 .. 2 * n |->
            IF k % 2 = 1 THEN BitAnd(RamAt(m, (k - 1) \div 2), 255)
            ELSE ShiftRight(BitAnd(RamAt(m, (k - 1) \div 2), 65280), 8)]

\* Memory::from_rom_file on a file of these bytes: a byte without its pair
\* makes bytes.next().unwrap() panic, a word past the end of ram is an index
\* out of bounds
from_rom_file(file) ==
    LET n == Len(file) \div 2
        word(k) == BitOr(file[2 * k + 1], ShiftLeft(file[2 * k + 2], 8))
    IN  IF Len(file) % 2 = 1
        THEN [res |-> Panic("unwrap on None"), mem |-> NewMemory]
        ELSE IF n > MEM_SIZE
        THEN [res |-> Panic("index out of bounds"), mem |-> NewMemory]
        ELSE [res |-> Ok,
              mem |-> [ram |-> [k \in { j \in 0 .. n - 1 : word(j) # 0 }
                                   |-> word(k)],
                       next_ins |-> n]]

(***************************************************************************)
(* main.rs: a source file assembled and run, either at once (run on a      *)
(* .tat file) or by way of a ROM (assemble, then run on the .rom file).    *)
(***************************************************************************)
\* a counting loop, its operands in the order the assembler reads them
CountToTen ==
    << "set ax 0", "set bx 10", ":loop inc ax", "jl ax bx :loop",
       "stor END ax" >>

\* the same loop with the register before the port
CountToTenRegFirst ==
    << "set ax 0", "set bx 10", ":loop inc ax", "jl ax bx :loop",
       "stor ax END" >>

\* a subroutine call by label
CallSub == << "call :sub", "stor ax END", ":sub set ax 7", "ret" >>

\* a call, which the assembler always aims at address 0
CallZero == << "set ax 7", "push ax", "call", "stor END ax" >>

\* echo: two characters read and written back, last first
Echo ==
    << "load ax IN", "load bx IN", "stor OUT bx", "stor OUT ax",
       "stor END bx" >>

\* every opcode once
Tour ==
    << "set ax 6", "set bx, 3 4", "copy cx ax", "add ax bx", "sub ax bx",
       "mult ax bx", "div ax bx", "mod ax bx", "neg ax", "inc ax", "dec ax",
       "and ax bx", "or ax bx", "xor ax bx", "inv ax", "shl ax 1",
       "shr ax 1", "push ax", "pop dx", "stor 100 bx", "load ex 100",
       "set fx 101", "pstor fx cx", "pload dx fx", "jl bx cx :a",
       ":a jle bx cx :b", ":b je bx bx :c", ":c jne bx cx :d",
       ":d jge cx bx :e", ":e jg cx bx :f", ":f call" >>

\* operands missing, of the wrong kind or in excess
Oddments ==
    << "add 7 bx", "push 3", "call 9 :z", "stor 5 inc", "copy ax",
       "shl bx ax", "inv" >>

\* numbers in the notations parse_str tries, and words that are none
Numbers ==
    << "set ax ff", "set bx 0xff", "set cx -1", "set dx 70000",
       "set ex bad", "set fx 'A'", "push ax zz", "stor END ax" >>

ProgSources ==
    { CountToTen, CountToTenRegFirst, CallSub, CallZero, Echo, Tour,
      Oddments, Numbers }

\* turns of the run loop followed when a source is run
MaxProgSteps == 36

InitProg ==
    /\ stage = "read"
    /\ source \in ProgSources
    /\ lines = source
    /\ linenum = 0
    /\ tokens = << >>
    /\ tok_i = 0
    /\ instructions = << >>
    /\ labels = << >>
    /\ next_ins_addr = 0
    /\ rom = NewMemory
    /\ asm_result = Running
    /\ trail = << >>
    /\ \E input \in Inputs : vm = NewCpu(NewMemory, input)
    /\ outcome = Running
    /\ steps = 0
    /\ hist = << >>
    /\ limit = MaxProgSteps
    /\ rom_file = << >>
    /\ CodecIdle

\* run on a .tat file: TeenyAT::new on what parse_file returned
BootTat ==
    /\ stage = "done"
    /\ asm_result.kind = "ok"
    /\ vm' = NewCpu(rom, vm.stdin)
    /\ stage' = "fetch"
    /\ UNCHANGED << outcome, steps, hist, limit, rom_file, asmVars,
                    codecVars >>

\* assemble: save_program, which opens the .rom file without creating it
SaveProgram ==
    /\ stage = "done"
    /\ asm_result.kind = "ok"
    /\ \E exists \in BOOLEAN :
          IF exists
          THEN /\ rom_file' = bytes(rom)
               /\ stage' = "saved"
               /\ outcome' = outcome
          ELSE /\ outcome' = Err("NotFound", 0)
               /\ stage' = "failed"
               /\ rom_file' = rom_file
    /\ UNCHANGED << vm, steps, hist, limit, asmVars, codecVars >>

\* run on the .rom file: from_rom_file, then TeenyAT::new
BootRom ==
    /\ stage = "saved"
    /\ LET r == from_rom_file(rom_file)
       IN  /\ vm' = IF r.res = Ok THEN NewCpu(r.mem, vm.stdin) ELSE vm
           /\ outcome' = IF r.res = Ok THEN outcome ELSE r.res
           /\ stage' = IF r.res = Ok THEN "fetch" ELSE "failed"
    /\ UNCHANGED << steps, hist, limit, rom_file, asmVars, codecVars >>

NextProg ==
    \/ NextAsm
    \/ BootTat
    \/ SaveProgram
    \/ BootRom
    \/ NextCpu

SpecProg == InitProg /\ [][NextProg]_vars

\* the process is scheduled as long as it has a step to take
SpecProgFair == SpecProg /\ WF_vars(NextProg)

(***************************************************************************)
(* Whole programs, from source text to exit status.  A run started from    *)
(* the source, or from the ROM saved of it, is followed to its end; the    *)
(* one behaviour set aside is the assemble command finding no .rom file to *)
(* write, which runs nothing.                                              *)
(***************************************************************************)
NothingToRun == stage = "failed" /\ outcome = Err("NotFound", 0)

\* C14: the program set ax 0 / set bx 10 / :loop inc ax / jl ax bx :loop /
\* stor ax END eventually terminates, and with exit status 10
C14_CountToTenExitsWithTen ==
    source = CountToTenRegFirst => <>(outcome = Exit(10) \/ NothingToRun)

\* C15: the program call :sub / stor ax END / :sub set ax 7 / ret assembles
\* without error, and its run eventually exits with status 7
C15_CallSubExitsWithSeven ==
    source = CallSub =>
        <>((asm_result = Ok /\ outcome = Exit(7)) \/ NothingToRun)

(***************************************************************************)
(* C18.  The ROM saved of an assembled image, loaded, is a memory of the   *)
(* same 32768 words, so the run of the loaded image writes the same output *)
(* and ends the same way as the run of the assembled image.  The two runs  *)
(* are computed here from their first fetch, in the same build and on the  *)
(* same input.                                                             *)
(***************************************************************************)
\* execute: the arm of c's op_code
execute(c, oc) ==
    CASE c.op_code = "Set" -> set(c)
      [] c.op_code = "Copy" -> copy(c)
      [] c.op_code = "Load" -> load(c)
      [] c.op_code = "Stor" -> stor(c)
      [] c.op_code = "PLoad" -> pload(c)
      [] c.op_code = "PStor" -> pstor(c)
      [] c.op_code = "Push" -> push(c, oc)
      [] c.op_code = "Pop" -> pop(c, oc)
      [] c.op_code = "Add" -> add(c, oc)
      [] c.op_code = "Sub" -> sub(c, oc)
      [] c.op_code = "Mult" -> mult(c, oc)
      [] c.op_code = "Div" -> div(c)
      [] c.op_code = "Mod" -> divmod(c)
      [] c.op_code = "Neg" -> neg(c, oc)
      [] c.op_code = "Inc" -> inc(c, oc)
      [] c.op_code = "Dec" -> dec(c, oc)
      [] c.op_code = "And" -> and(c)
      [] c.op_code = "Or" -> or(c)
      [] c.op_code = "Xor" -> xor(c)
      [] c.op_code = "Inv" -> inv(c)
      [] c.op_code = "Shl" -> shl(c, oc)
      [] c.op_code = "Shr" -> shr(c, oc)
      [] c.op_code = "Call" -> call(c, oc)
      [] c.op_code = "Jl" -> jl(c)
      [] c.op_code = "Jle" -> jle(c)
      [] c.op_code = "Je" -> je(c)
      [] c.op_code = "Jne" -> jne(c)
      [] c.op_code = "Jge" -> jge(c)
      [] c.op_code = "Jg" -> jg(c)

\* run, for at most turns turns of its loop: how it ended (Ok if it has not)
\* and what it had written
RECURSIVE run(_, _, _)
run(c, oc, turns) ==
    IF turns = 0 THEN [res |-> Ok, stdout |-> c.stdout]
    ELSE LET f == fetch(c)
             d == decode(f.s)
             e == execute(d.s, oc)
         IN  IF f.res # Ok THEN [res |-> f.res, stdout |-> f.s.stdout]
             ELSE IF d.res # Ok THEN [res |-> d.res, stdout |-> d.s.stdout]
             ELSE IF e.res # Ok THEN [res |-> e.res, stdout |-> e.s.stdout]
             ELSE run(e.s, oc, turns - 1)

\* the ROM has been loaded and the CPU built on it has not started
RomBooted ==
    /\ stage = "fetch"
    /\ rom_file # << >>
    /\ hist = << >>

StackRegs == { "R1", "R2", "R6" }

StackOps ==
    { WithVals(op, r, "Pc", 0) : op \in { "Push", "Pop" }, r \in StackRegs }

\* Push and Pop instructions in a row, at most this many
MaxStackOps == 4

RECURSIVE StackSeqs(_)
StackSeqs(n) ==
    IF n = 0 THEN { << >> }
    ELSE StackSeqs(n - 1)
         \cup { Append(seq, i) :
                  seq \in { t \in StackSeqs(n - 1) : Len(t) = n - 1 },
                  i \in StackOps }

StackPrologues ==
    { << >> } \cup { Prologue(a, b) : a \in { 1, 65535 }, b \in { 0, 2 } }

StackPrograms ==
    { pre \o seq : pre \in StackPrologues,
                   seq \in StackSeqs(MaxStackOps) \ { << >> } }

InitStack ==
    /\ stage = "fetch"
    /\ \E prog \in StackPrograms : vm = NewCpu(Image(prog), << >>)
    /\ outcome = Running
    /\ steps = 0
    /\ hist = << >>
    /\ limit = MaxStackOps + 2
    /\ rom_file = << >>
    /\ AsmIdle
    /\ CodecIdle

\* the arms of execute these programs reach
NextStack ==
    \/ Fetch
    \/ Decode
    \/ ExecSet
    \/ ExecPush
    \/ ExecPop

SpecStack == InitStack /\ [][NextStack]_vars

(***************************************************************************)
(* C21.  From a fresh CPU, as long as no Pop was executed on an empty      *)
(* stack, SP is 0x8000 less the number of values pushed and not yet        *)
(* popped, those values lie at SP..0x7FFF with the latest at SP, a Pop     *)
(* gives the latest of them, and neither Push nor Pop ends the run.        *)
(***************************************************************************)
\* the CPU as turn k decoded it, and the opcode of that turn
TurnCpu(k) == IF k < Len(hist) THEN hist[k + 1] ELSE vm

TurnOp(k) == TurnCpu(k).op_code

\* the values pushed and not yet popped after the first k turns, the latest
\* first
RECURSIVE Pushed(_)
Pushed(k) ==
    IF k = 0 THEN << >>
    ELSE LET under == Pushed(k - 1)
         IN  CASE TurnOp(k) = "Push" ->
                      << hist[k].regs[RegField(TurnCpu(k).ra)] >> \o under
               [] TurnOp(k) = "Pop" -> Tail(under)
               [] OTHER -> under

\* between two instructions
BetweenTurns == stage = "fetch" /\ outcome = Running

C21_StackIsLifo ==
    /\ BetweenTurns =>
          /\ vm.regs["sp"] = SP_INIT - Len(Pushed(Len(hist)))
          /\ \A i \in 1 .. Len(Pushed(Len(hist))) :
                RamAt(vm.mem, vm.regs["sp"] + i - 1) = Pushed(Len(hist))[i]
    /\ JustExecuted("Pop") =>
          vm.regs[RegField(vm.ra)] = Head(Pushed(Len(hist) - 1))
    /\ ~EndedIn("Push")
    /\ EndedIn("Pop") => Pushed(Len(hist) - 1) = << >>

\* two different values were pushed and the later one has been popped
C21_Witness ==
    /\ JustExecuted("Pop")
    /\ Pushed(Len(hist) - 1) = << 2, 65535 >>
    /\ vm.regs["r6"] = 2
    /\ vm.regs["sp"] = SP_INIT - 1

(***************************************************************************)
(* C22.  The image parse_file returns holds one instruction for each       *)
(* opcode token the walk met as a statement, in the order met, from word   *)
(* 0; next_ins is twice their number; the opcode field of each first word  *)
(* is that opcode, its low five bits are zero, the register fields the     *)
(* opcode has no register for are 0, the immediate of an opcode that reads *)
(* none is 0; and the words from next_ins on are 0.                        *)
(***************************************************************************)
\* the entries of trail for the opcode tokens the walk handled
OpsMet == { k \in DOMAIN trail : trail[k].kind = "Op" }

\* the fields of an op_regs word
OpField(w) == w \div 2048
RaField(w) == (w \div 256) % 8
RbField(w) == (w \div 32) % 8

\* opcodes whose execution reads imm or addr
ReadsImm == { "Set", "Load", "Stor", "Shl", "Shr", "Call" } \cup JumpOps

C22_ImageIsTheInstructionsInOrder ==
    Assembled =>
        /\ rom.next_ins = 2 * Cardinality(OpsMet)
        /\ \A k \in OpsMet :
              LET w == RamAt(rom, 2 * trail[k].emitted)
                  imm == RamAt(rom, 2 * trail[k].emitted + 1)
                  op == trail[k].name
              IN  /\ trail[k].emitted = Cardinality({ j \in OpsMet : j < k })
                  /\ OpField(w) = OpToInt(op)
                  /\ OpField(w) \in 0 .. 28
                  /\ w % 32 = 0
                  /\ NumRegs(op) <= 1 => RbField(w) = 0
                  /\ op = "Call" => RaField(w) = 0
                  /\ op \notin ReadsImm => imm = 0
        /\ \A a \in rom.next_ins .. MEM_SIZE - 1 : RamAt(rom, a) = 0

\* the tour of the 29 opcodes assembled: 31 instructions, the last a Call
C22_Witness ==
    /\ Assembled
    /\ source = Tour
    /\ rom.next_ins = 62
    /\ OpField(RamAt(rom, 60)) = 22

(***************************************************************************)
(* C24.  A fetched op_regs word whose opcode field is 29, 30 or 31 is      *)
(* never executed: decode ends the run with InvalidOpCode of that code,    *)
(* memory and every register but PC, which fetch advanced by 2, being as   *)
(* they were before the fetch.                                             *)
(***************************************************************************)
\* run ended inside decode
EndedInDecode == stage = "decode" /\ outcome # Running

C24_InvalidOpCodeIsAnError ==
    /\ stage = "execute" => OpField(vm.ins.word_op_regs) \in 0 .. 28
    /\ EndedInDecode =>
          /\ OpField(vm.ins.word_op_regs) \in 29 .. 31
          /\ outcome = Err("InvalidOpCode", OpField(vm.ins.word_op_regs))
          /\ vm.mem = Before.mem
          /\ vm.regs = AtExecute(Before)

\* the third instruction of a program had opcode field 31
C24_Witness ==
    /\ EndedInDecode
    /\ outcome = Err("InvalidOpCode", 31)
    /\ vm.regs["pc"] = 6

(***************************************************************************)
(* The assembler on one statement per opcode, its mnemonic in lower or in  *)
(* upper case, after a line that puts it at address 2 and with a label in  *)
(* front of it for the jumps to aim at.                                    *)
(***************************************************************************)
UpperChar(c) ==
    IF IndexIn(LowerCase, c) > 0 THEN Char(UpperCase, IndexIn(LowerCase, c))
    ELSE c

\* str::to_ascii_uppercase
RECURSIVE ToAsciiUppercase(_)
ToAsciiUppercase(s) ==
    IF Len(s) = 0 THEN s
    ELSE UpperChar(Char(s, 1)) \o ToAsciiUppercase(Drop(s, 1))

\* operands as the handlers of the opcode read them
OperandsOf(op) ==
    CASE op = "Call" -> ""
      [] op = "Stor" -> " 5 ax"
      [] op \in { "Set", "Load", "Shl", "Shr" } -> " ax 5"
      [] op \in OneRegOps -> " ax"
      [] op \in JumpOps -> " ax bx :t"
      [] OTHER -> " ax bx"

\* the source for opcode k (from 1), its mnemonic in upper case or not
CaseSource(k, upper) ==
    << "inc cx",
       ":t " \o (IF upper THEN ToAsciiUppercase(OpMnems[k]) ELSE OpMnems[k])
             \o OperandsOf(OpCodes[k]) >>

CaseSources ==
    { CaseSource(k, upper) : k \in 1 .. Len(OpMnems), upper \in BOOLEAN }

InitCase ==
    /\ stage = "read"
    /\ source \in CaseSources
    /\ lines = source
    /\ linenum = 0
    /\ tokens = << >>
    /\ tok_i = 0
    /\ instructions = << >>
    /\ labels = << >>
    /\ next_ins_addr = 0
    /\ rom = NewMemory
    /\ asm_result = Running
    /\ trail = << >>
    /\ CpuIdle
    /\ CodecIdle

SpecCase == InitCase /\ [][NextAsm]_vars

(***************************************************************************)
(* C25.  For each of the 29 opcodes, the statement with its mnemonic in    *)
(* upper case assembles, and to the instruction the statement with the     *)
(* mnemonic in lower case assembles to.                                    *)
(***************************************************************************)
\* the instruction the operands of OperandsOf name for op, :t being 2
StatementOf(op) ==
    WithVals(op,
             IF op = "Call" THEN "Pc" ELSE "R1",
             IF NumRegs(op) = 2 THEN "R2" ELSE "Pc",
             CASE op \in ImmOps -> 5
               [] op \in JumpOps -> 2
               [] OTHER -> 0)

CaseImage(k) ==
    Image(<< WithVals("Inc", "R3", "Pc", 0), StatementOf(OpCodes[k]) >>)

C25_MnemonicsInEitherCase ==
    stage = "done" =>
        \A k \in 1 .. Len(OpMnems), upper \in BOOLEAN :
            source = CaseSource(k, upper) =>
                asm_result = Ok /\ rom = CaseImage(k)

(***************************************************************************)
(* C26.  A word of a line that is no label, no character literal, no       *)
(* opcode or register mnemonic, no decimal number of -32768..65535 and no  *)
(* number with the prefix 0x is the token Imm(0): so the word ff is.       *)
(***************************************************************************)
\* the words of the line the walk is on
WordsOfLine == SplitWhitespace(lines[linenum + 1])

\* w is written in one of the notations
Notated(w) ==
    \/ StartsWith(w, "!") \/ StartsWith(w, ":")
    \/ StartsWith(w, "'")
    \/ OpFromStr(w) # ""
    \/ RegFromStr(w) # ""
    \/ ParseUnsigned(w, 10) >= 0
    \/ ParseI16AsU16(w) >= 0
    \/ StartsWith(w, "0x")

C26_OtherWordsAreImmZero ==
    stage = "walk" /\ tok_i = 0 =>
        \A k \in 1 .. Len(tokens) :
            ~Notated(WordsOfLine[k]) => tokens[k] = TokImm(0)

=============================================================================
